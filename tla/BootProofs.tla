----------------------------- MODULE BootProofs -----------------------------
(***************************************************************************)
(* Proofs about the start-up of the two cores, for pools of any size, any  *)
(* queues, RPMsg devices, events and blocks of the application, and any    *)
(* image of the subcore.                                                   *)
(*                                                                         *)
(* The main core only ever adds blocks behind those that are there, and    *)
(* cuts each ring out of blocks it has just added.  So what was apart      *)
(* stays apart, and the id of a block leads to the same rings for ever:    *)
(* what the subcore finds by an id is what the main core made under it.    *)
(* That much holds as long as nothing is overwritten (Intact); the blocks  *)
(* themselves lie apart in any case (BootBase).                            *)
(***************************************************************************)
EXTENDS BootMemory

-----------------------------------------------------------------------------
(* Handles                                                                 *)

HandleSet == [id : RingId, ring : RingSet, master : BOOLEAN]

\* What the id of a handle h of the main core leads to: for a queue its ring,
\* for an RPMsg device both rings, of which the main core sends on the first.
\* With light sleep (sl) the descriptors the subcore polls are in RTC memory.
QueueAt(C, h, b, sl) ==
    /\ h.ring \in C /\ h.ring.conf = At("HP", b)
    /\ (sl /\ h.master) => h.ring.desc.cap = "RTC"
RpmsgAt(C, H, id, b, sl) ==
    \E x, y \in C :
        /\ x.conf = At("HP", b) /\ y.conf = Off("HP", b, CONF)
        /\ Handle(id, x, TRUE) \in H /\ Handle(id, y, FALSE) \in H
        /\ sl => x.desc.cap = "RTC"
LeadsTo(C, H, h, b, sl) ==
    /\ b.id = h.id
    /\ h.id \notin RpmsgId => QueueAt(C, h, b, sl)
    /\ h.id \in RpmsgId => RpmsgAt(C, H, h.id, b, sl)
Attached(p, C, H, h, sl) == \E k \in 1 .. Len(p["HP"]) : LeadsTo(C, H, h, p["HP"][k], sl)

\* The pools, the rings in them and the handles of the main core.
World(p, C, H, sl) ==
    /\ PoolOK(p) /\ RingsOK(p, C) /\ H \subseteq HandleSet
    /\ \A h \in H : Attached(p, C, H, h, sl)

\* More rings and handles do not change where an id leads.
LEMMA LeadsOn ==
    ASSUME NEW C, NEW D, C \subseteq D, NEW H, NEW I, H \subseteq I, NEW h, NEW b, NEW sl,
           LeadsTo(C, H, h, b, sl)
    PROVE  LeadsTo(D, I, h, b, sl)
<1>1. h.id \notin RpmsgId => QueueAt(D, h, b, sl)
  BY DEF LeadsTo, QueueAt
<1>2. h.id \in RpmsgId => RpmsgAt(D, I, h.id, b, sl)
  <2> HAVE h.id \in RpmsgId
  <2>1. PICK x, y \in C :
            /\ x.conf = At("HP", b) /\ y.conf = Off("HP", b, CONF)
            /\ Handle(h.id, x, TRUE) \in H /\ Handle(h.id, y, FALSE) \in H
            /\ sl => x.desc.cap = "RTC"
    BY Zenon DEF LeadsTo, RpmsgAt
  <2> QED BY <2>1, Zenon DEF RpmsgAt
<1> QED BY <1>1, <1>2 DEF LeadsTo

\* The pools, rings and handles stay consistent when new blocks hold the new
\* rings and the new handles lead to them.
LEMMA WorldGrows ==
    ASSUME NEW p, NEW C, NEW H, NEW sl, World(p, C, H, sl),
           NEW q, PoolOK(q), Grown(p, q), NEW N, RingsNew(p, q, N),
           NEW M, M \subseteq HandleSet, \A h \in M : Attached(q, C \cup N, H \cup M, h, sl)
    PROVE  World(q, C \cup N, H \cup M, sl)
<1>1. RingsOK(q, C \cup N)
  BY RingsGrow DEF World
<1>2. ASSUME NEW h \in H PROVE Attached(q, C \cup N, H \cup M, h, sl)
  <2>1. PICK k \in 1 .. Len(p["HP"]) : LeadsTo(C, H, h, p["HP"][k], sl)
    BY DEF World, Attached
  <2>2. "HP" \in Cap
    BY DEF Cap
  <2>3. k \in 1 .. Len(q["HP"]) /\ q["HP"][k] = p["HP"][k]
    BY <2>2, BlocksStay DEF World
  <2>4. LeadsTo(C \cup N, H \cup M, h, p["HP"][k], sl)
    BY <2>1, LeadsOn
  <2> QED BY <2>3, <2>4 DEF Attached
<1> QED BY <1>1, <1>2 DEF World

\* A step that adds neither ring nor handle.
LEMMA NothingNew ==
    ASSUME NEW p, NEW q
    PROVE  RingsNew(p, q, {})
BY DEF RingsNew, Parts, AllApart

-----------------------------------------------------------------------------
(* The invariant                                                           *)

MainLabels == {"sys_info", "pm", "service", "event_main", "event_sub", "app",
               "loading", "loaded", "running", "halt"}
SubLabels == {"off", "pm", "service", "event", "app"}
Early == {"sys_info", "pm", "service", "event_main", "event_sub", "app"}
Has(id, c) == \E k \in 1 .. Len(pool[c]) : pool[c][k].id = id

BootTypes ==
    /\ main \in MainLabels /\ sub \in SubLabels
    /\ handle = [main |-> handle.main, sub |-> handle.sub] /\ handle.sub \subseteq HandleSet

\* What esp_amp_init has allocated when the main core is behind a step of it.
\* The subcore runs only once all of it is there.
Started ==
    /\ main = "sys_info" => pool = [c \in Cap |-> <<>>]
    /\ (main \notin {"sys_info", "pm", "halt"} /\ build.sleep) => Has("PM", "RTC")
    /\ main \notin {"sys_info", "pm", "service", "halt"} =>
           \E h \in handle.main : h.id = "SYSTEM" /\ ~h.master
    /\ main \notin {"sys_info", "pm", "service", "event_main", "halt"} => Has("EVENT_MAIN", "HP")
    /\ main \notin {"sys_info", "pm", "service", "event_main", "event_sub", "halt"} =>
           Has("EVENT_SUB", "HP")
    /\ sub # "off" => main = "running"

\* The image lies below the unused cells, which are all the heap gets.
Loaded ==
    /\ load = [image |-> load.image, seg |-> load.seg, ok |-> load.ok,
               unused |-> load.unused, cells |-> load.cells, over |-> load.over]
    /\ load.over \in BOOLEAN /\ (main \in Early => ~load.over)
    /\ load.unused \in Nat /\ load.unused <= HpCells
    /\ \A x \in load.cells : x \in Nat /\ x < load.unused
    /\ heap \subseteq Cells
    /\ main \in Early \cup {"loading"} => heap = {}
    /\ main \in {"loaded", "running"} => \A x \in heap : x \in Nat /\ load.unused <= x

Paired ==
    \A h \in handle.sub :
        /\ Handle(h.id, h.ring, ~h.master) \in handle.main
        /\ (build.sleep /\ ~h.master) => h.ring.desc.cap = "RTC"

\* What holds whatever is overwritten.
BootBase ==
    /\ BuildOK /\ PoolOK(pool) /\ Loaded
    /\ main \in MainLabels /\ sub \in SubLabels \cup {"panicked"}
    /\ main = "sys_info" => pool = [c \in Cap |-> <<>>]

BootInv ==
    /\ BuildOK /\ BootTypes /\ World(pool, conf, handle.main, build.sleep)
    /\ Started /\ Loaded /\ Paired

\* The pools are empty and nothing is attached when the main core starts.
LEMMA BootStart == BootInit => BootInv /\ BootBase
<1> SUFFICES ASSUME BootInit PROVE BootInv /\ BootBase
  OBVIOUS
<1> USE DEF BootInit
<1>1. BuildOK
  BY DEF BuildOK
<1>2. BootTypes
  BY DEF BootTypes, MainLabels, SubLabels
<1>3. World(pool, conf, handle.main, build.sleep)
  <2>1. PoolOK(pool)
    <3>1. \A c \in Cap : pool[c] = <<>>
      OBVIOUS
    <3>2. <<>> \in Seq(Block) /\ Len(<<>>) = 0
      OBVIOUS
    <3> QED BY <3>1, <3>2 DEF PoolOK, ListOK
  <2>2. RingsOK(pool, {})
    BY DEF RingsOK, Parts, AllApart
  <2> QED BY <2>1, <2>2 DEF World
<1>4. Started /\ Paired
  BY DEF Started, Paired
<1>5. Loaded
  BY PoolAssumption DEF Loaded, Cells
<1>6. BootInv
  BY <1>1, <1>2, <1>3, <1>4, <1>5 DEF BootInv
<1>7. main \in MainLabels /\ sub \in SubLabels /\ pool = [c \in Cap |-> <<>>]
  BY DEF MainLabels, SubLabels
<1>8. PoolOK(pool)
  BY <1>3 DEF World
<1> QED BY <1>1, <1>5, <1>6, <1>7, <1>8, Zenon DEF BootBase

\* What a step that allocates does to all but the main core's position.
Moved ==
    /\ World(pool', conf', handle'.main, build.sleep)
    /\ Grown(pool, pool') /\ handle.main \subseteq handle'.main
    /\ handle' = [main |-> handle'.main, sub |-> handle.sub]
    /\ UNCHANGED <<build, sub, load, heap, boot_addr>>

\* The step takes its rings N and handles M from the result of a call.
MovedBy(r, N, M) ==
    Moved /\ handle'.main = handle.main \cup M /\ pool' = r.pool /\ conf' = conf \cup N

\* What every successful initialisation function does to the shared memory.
LEMMA PlaceMoves ==
    ASSUME BootInv, NEW r, NEW masters, NEW id, NEW next, Place(r, masters, id, next),
           PoolOK(r.pool), Grown(pool, r.pool),
           NEW N, N = Range(r.rings), RingsNew(pool, r.pool, N),
           NEW M, M = {Handle(id, r.rings[k], masters[k]) : k \in DOMAIN r.rings},
           M \subseteq HandleSet,
           \A h \in M : Attached(r.pool, conf \cup N, handle.main \cup M, h, build.sleep)
    PROVE  MovedBy(r, N, M)
<1>1. handle = [main |-> handle.main, sub |-> handle.sub]
  BY DEF BootInv, BootTypes
<1>2. handle' = [handle EXCEPT !.main = @ \cup M]
  BY DEF Place
<1>3. handle' = [main |-> handle.main \cup M, sub |-> handle.sub]
  BY <1>1, <1>2
<1>4. pool' = r.pool /\ conf' = conf \cup N
  BY DEF Place
<1>5. World(r.pool, conf \cup N, handle.main \cup M, build.sleep)
  BY WorldGrows, Zenon DEF BootInv
<1> QED BY <1>3, <1>4, <1>5, Zenon DEF MovedBy, Moved, Place

\* An initialisation function that fails changes nothing but the label.
LEMMA PlaceNone ==
    ASSUME BootInv, NEW r, NEW masters, NEW id, NEW next, Place(r, masters, id, next),
           PoolOK(r.pool), Grown(pool, r.pool), r.rings = <<>>
    PROVE  Moved /\ pool' = r.pool
<1> DEFINE M == {Handle(id, r.rings[k], masters[k]) : k \in DOMAIN r.rings}
           N == Range(r.rings)
<1>1. N = {} /\ M = {}
  BY DEF Range
<1>2. RingsNew(pool, r.pool, N)
  BY <1>1, NothingNew
<1>3. /\ M \subseteq HandleSet
      /\ \A h \in M : Attached(r.pool, conf \cup N, handle.main \cup M, h, build.sleep)
  BY <1>1
<1>4. MovedBy(r, N, M)
  BY <1>2, <1>3, PlaceMoves, Zenon
<1> QED BY <1>4 DEF MovedBy

\* esp_amp_sys_info_alloc, as called by everything that makes no ring.
PlainPlaced(id, c, next) ==
    /\ Moved /\ (main' = next \/ main' = "halt")
    /\ main' = next => \E k \in 1 .. Len(pool'[c]) : pool'[c][k].id = id

\* A block without a ring: the counters of the power management, the event words
\* and what the application allocates for itself.
LEMMA PlacePlain ==
    ASSUME BootInv, NEW id \in BlockId, NEW n \in Nat, NEW c \in Cap, NEW next, next # "halt",
           Place(Plain(Alloc(pool, id, n, c)), <<>>, id, next)
    PROVE  PlainPlaced(id, c, next)
<1> DEFINE a == Alloc(pool, id, n, c)
           r == Plain(a)
<1>1. PoolOK(pool)
  BY DEF BootInv, World
<1>2. Allocated(pool, id, n, c, a)
  BY <1>1, AllocFacts
<1> HIDE DEF a
<1>3. r.pool = a.pool /\ r.rings = <<>> /\ (r.ok <=> a.ptr # NULL)
  BY Zenon DEF Plain
<1>4. Place(r, <<>>, id, next)
  BY DEF a
<1> HIDE DEF r
<1>5. Grown(pool, a.pool) /\ PoolOK(a.pool)
  BY <1>2 DEF Allocated, Grown
<1>7. Moved /\ pool' = a.pool
  BY <1>3, <1>4, <1>5, PlaceNone
<1>8. main' = IF r.ok THEN next ELSE "halt"
  BY <1>4 DEF Place
<1>9. a.ptr # NULL => \E k \in 1 .. Len(a.pool[c]) : a.pool[c][k].id = id
  BY <1>1, <1>2, AddedBlock DEF Allocated
<1> QED BY <1>3, <1>7, <1>8, <1>9 DEF PlainPlaced

\* The handle of a queue leads to its ring.
LEMMA QueueLeads ==
    ASSUME NEW x \in RingSet, NEW b \in Block, NEW id \in QueueId \cup {"SYSTEM"}, NEW m \in BOOLEAN,
           NEW sl, b.id = id, x.conf = At("HP", b), (sl /\ m) => x.desc.cap = "RTC",
           NEW C, x \in C, NEW H
    PROVE  Handle(id, x, m) \in HandleSet /\ LeadsTo(C, H, Handle(id, x, m), b, sl)
<1> DEFINE h == Handle(id, x, m)
<1>1. h.id = id /\ h.ring = x /\ h.master = m /\ h = [id |-> id, ring |-> x, master |-> m]
  BY DEF Handle
<1> HIDE DEF h
<1>2. id \notin RpmsgId /\ id \in RingId
  BY IdAssumption DEF RingId
<1>3. h \in HandleSet
  BY <1>1, <1>2 DEF HandleSet
<1>4. LeadsTo(C, H, h, b, sl)
  BY <1>1, <1>2 DEF LeadsTo, QueueAt
<1> QED BY <1>3, <1>4 DEF h

\* esp_amp_queue_main_init.
QueuePlaced(id, m, next) ==
    /\ Moved /\ (main' = next \/ main' = "halt")
    /\ main' = next => \E h \in handle'.main : h.id = id /\ h.master = m

\* A queue: its ring is new, and its id leads to it.
LEMMA PlaceQueue ==
    ASSUME BootInv, NEW id \in QueueId \cup {"SYSTEM"}, NEW s \in Shapes \cup {<<16, 128>>},
           NEW m \in BOOLEAN, NEW next, next # "halt",
           Place(QueueMainInit(pool, id, s, m), <<m>>, id, next), Whole(pool')
    PROVE  QueuePlaced(id, m, next)
<1> DEFINE r == QueueMainInit(pool, id, s, m)
<1>1. PoolOK(pool) /\ BuildOK
  BY DEF BootInv, World
<1>2. QueueMade(pool, id, m, r)
  BY <1>1, QueueFacts
<1>3. Place(r, <<m>>, id, next)
  OBVIOUS
<1> HIDE DEF r
<1>4. main' = (IF r.ok THEN next ELSE "halt") /\ Whole(r.pool)
  BY <1>3 DEF Place
<1>5. CASE ~r.ok
  <2>1. Moved
    BY <1>2, <1>3, <1>5, PlaceNone DEF QueueMade
  <2> QED BY <2>1, <1>4, <1>5 DEF QueuePlaced
<1>6. CASE r.ok
  <2>1. PICK x \in RingSet, b \in Block :
            /\ r.rings = <<x>> /\ RingsNew(pool, r.pool, {x})
            /\ Added(pool, r.pool, "HP", b) /\ b.id = id /\ x.conf = At("HP", b)
            /\ (build.sleep /\ m) => x.desc.cap = "RTC"
    BY <1>2, <1>4, <1>6, Zenon DEF QueueMade
  <2> DEFINE ms == <<m>>
             M == {Handle(id, r.rings[k], ms[k]) : k \in DOMAIN r.rings}
             N == Range(r.rings)
             h == Handle(id, x, m)
  <2>2. DOMAIN r.rings = {1} /\ r.rings[1] = x /\ ms[1] = m
    BY <2>1
  <2>3. M = {h} /\ N = {x}
    BY <2>2 DEF Range
  <2>4. "HP" \in Cap
    BY DEF Cap
  <2>5. PICK k \in 1 .. Len(r.pool["HP"]) : r.pool["HP"][k] = b
    BY <1>1, <2>1, <2>4, AddedBlock
  <2>6. h \in HandleSet /\ LeadsTo(conf \cup N, handle.main \cup M, h, b, build.sleep)
    <3>1. x \in conf \cup N
      BY <2>3
    <3> HIDE DEF N, M
    <3> QED BY <2>1, <3>1, QueueLeads, ZenonT(30)
  <2>7. Place(r, ms, id, next)
    BY <1>3
  <2> HIDE DEF ms, h
  <2>8. M \subseteq HandleSet
        /\ \A g \in M : Attached(r.pool, conf \cup N, handle.main \cup M, g, build.sleep)
    BY <2>3, <2>5, <2>6, Zenon DEF Attached
  <2>9. RingsNew(pool, r.pool, N)
    BY <2>1, <2>3, Zenon
  <2>10. MovedBy(r, N, M)
    BY <1>2, <2>7, <2>8, <2>9, PlaceMoves, ZenonT(30) DEF QueueMade
  <2>11. h \in handle'.main /\ h.id = id /\ h.master = m
    BY <2>3, <2>10, Zenon DEF MovedBy, h, Handle
  <2> QED BY <1>4, <1>6, <2>10, <2>11 DEF QueuePlaced, MovedBy
<1> QED BY <1>5, <1>6

\* esp_amp_rpmsg_main_init.
LEMMA PlaceRpmsg ==
    ASSUME BootInv, NEW id \in RpmsgId, NEW s \in Shapes \cup {<<16, 128>>}, NEW next,
           Place(RpmsgMainInit(pool, id, s), <<TRUE, FALSE>>, id, next), Whole(pool')
    PROVE  Moved /\ (main' = next \/ main' = "halt")
<1> DEFINE r == RpmsgMainInit(pool, id, s)
<1>1. PoolOK(pool) /\ BuildOK
  BY DEF BootInv, World
<1>2. RpmsgMade(pool, id, r)
  BY <1>1, RpmsgFacts
<1>3. Place(r, <<TRUE, FALSE>>, id, next)
  OBVIOUS
<1> HIDE DEF r
<1>4. main' = (IF r.ok THEN next ELSE "halt") /\ Whole(r.pool)
  BY <1>3 DEF Place
<1>5. CASE ~r.ok
  <2>1. Moved
    BY <1>2, <1>3, <1>5, PlaceNone DEF RpmsgMade
  <2> QED BY <2>1, <1>4
<1>6. CASE r.ok
  <2>1. PICK x \in RingSet, y \in RingSet, b \in Block :
            /\ r.rings = <<x, y>> /\ RingsNew(pool, r.pool, {x, y})
            /\ Added(pool, r.pool, "HP", b) /\ b.id = id
            /\ x.conf = At("HP", b) /\ y.conf = Off("HP", b, CONF)
            /\ build.sleep => x.desc.cap = "RTC"
    BY <1>2, <1>4, <1>6, Zenon DEF RpmsgMade
  <2> DEFINE ms == <<TRUE, FALSE>>
             M == {Handle(id, r.rings[k], ms[k]) : k \in DOMAIN r.rings}
             N == Range(r.rings)
             h == Handle(id, x, TRUE)
             g == Handle(id, y, FALSE)
  <2>2. DOMAIN r.rings = {1, 2} /\ r.rings[1] = x /\ r.rings[2] = y /\ ms[1] = TRUE /\ ms[2] = FALSE
    BY <2>1
  <2>3. M = {h, g} /\ N = {x, y}
    <3>1. N = {x, y}
      BY <2>2 DEF Range
    <3>2. M = {Handle(id, r.rings[k], ms[k]) : k \in {1, 2}}
      BY <2>2
    <3>3. M = {Handle(id, r.rings[1], ms[1]), Handle(id, r.rings[2], ms[2])}
      <4> HIDE DEF ms
      <4> QED BY <3>2
    <3> HIDE DEF M, N, ms
    <3> QED BY <3>1, <3>3, <2>2, Zenon
  <2>4. "HP" \in Cap
    BY DEF Cap
  <2>5. PICK k \in 1 .. Len(r.pool["HP"]) : r.pool["HP"][k] = b
    BY <1>1, <2>1, <2>4, AddedBlock
  <2>6. h.id = id /\ g.id = id /\ h \in HandleSet /\ g \in HandleSet
    BY <2>1 DEF Handle, HandleSet, RingId
  <2>7. RpmsgAt(conf \cup N, handle.main \cup M, id, b, build.sleep)
    <3>1. x \in conf \cup N /\ y \in conf \cup N /\ h \in handle.main \cup M /\ g \in handle.main \cup M
      BY <2>3, Zenon
    <3> HIDE DEF M, N
    <3> QED BY <2>1, <3>1, Zenon DEF RpmsgAt
  <2>8. Place(r, ms, id, next)
    BY <1>3
  <2>9. PoolOK(r.pool) /\ Grown(pool, r.pool)
    BY <1>2 DEF RpmsgMade
  <2>10. M = {Handle(id, r.rings[j], ms[j]) : j \in DOMAIN r.rings} /\ N = Range(r.rings)
    OBVIOUS
  <2> HIDE DEF ms, h, g, M, N
  <2>11. \A f \in M : LeadsTo(conf \cup N, handle.main \cup M, f, b, build.sleep)
    BY <2>1, <2>3, <2>6, <2>7, Zenon DEF LeadsTo
  <2>12. M \subseteq HandleSet
         /\ \A f \in M : Attached(r.pool, conf \cup N, handle.main \cup M, f, build.sleep)
    BY <2>3, <2>5, <2>6, <2>11, Zenon DEF Attached
  <2>13. RingsNew(pool, r.pool, N)
    BY <2>1, <2>3, Zenon
  <2>14. MovedBy(r, N, M)
    BY <2>9, <2>8, <2>12, <2>13, <2>10, PlaceMoves, Zenon
  <2> QED BY <1>4, <2>14 DEF MovedBy
<1> QED BY <1>5, <1>6

-----------------------------------------------------------------------------
(* Steps                                                                   *)

\* A block that was found once is found again.
LEMMA HasStays ==
    ASSUME BootInv, Grown(pool, pool'), NEW id, NEW c \in Cap, Has(id, c)
    PROVE  Has(id, c)'
<1>1. PICK k \in 1 .. Len(pool[c]) : pool[c][k].id = id
  BY DEF Has
<1>2. PoolOK(pool)
  BY DEF BootInv, World
<1>3. k \in 1 .. Len(pool'[c]) /\ pool'[c][k] = pool[c][k]
  BY <1>2, BlocksStay
<1> QED BY <1>1, <1>3 DEF Has

\* The steps of the main core that allocate.
LEMMA MovedStep ==
    ASSUME BootInv, Moved, main \in Early, main' \in Early \cup {"halt"}, main' # "sys_info", Started'
    PROVE  BootInv'
<1>1. build' = build /\ sub' = sub /\ load' = load /\ heap' = heap
  BY DEF Moved
<1>2. handle'.sub = handle.sub /\ handle' = [main |-> handle'.main, sub |-> handle'.sub]
  BY DEF Moved
<1>3. BuildOK'
  BY <1>1 DEF BootInv, BuildOK
<1>4. BootTypes'
  BY <1>1, <1>2 DEF BootInv, BootTypes, MainLabels, Early
<1>5. World(pool, conf, handle.main, build.sleep)'
  BY <1>1 DEF Moved
<1>6. Loaded'
  <2>1. heap = {}
    BY DEF BootInv, Loaded
  <2>2. Cells' = Cells
    BY DEF Cells
  <2> QED BY <1>1, <2>1, <2>2 DEF BootInv, Loaded, Early
<1>7. Paired'
  BY <1>1, <1>2 DEF BootInv, Paired, Moved
<1> QED BY <1>3, <1>4, <1>5, <1>6, <1>7 DEF BootInv

\* esp_amp_sys_info_init.
LEMMA SysInfoStep ==
    ASSUME BootInv, SysInfoInit
    PROVE  BootInv'
<1>1. pool' = pool
  BY DEF BootInv, Started, SysInfoInit
<1>2. /\ build' = build /\ sub' = sub /\ conf' = conf /\ handle' = handle /\ load' = load
      /\ heap' = heap /\ main = "sys_info" /\ main' = "pm"
  BY DEF SysInfoInit
<1>3. BuildOK' /\ Paired'
  BY <1>2 DEF BootInv, BuildOK, Paired
<1>4. BootTypes' /\ Started'
  BY <1>2 DEF BootInv, BootTypes, MainLabels, Started
<1>5. World(pool, conf, handle.main, build.sleep)'
  BY <1>1, <1>2 DEF BootInv
<1>6. Loaded'
  BY <1>2 DEF BootInv, Loaded, Early, Cells
<1> QED BY <1>3, <1>4, <1>5, <1>6 DEF BootInv

\* esp_amp_pm_init on the main core.
LEMMA PmStep ==
    ASSUME BootInv, PmInit
    PROVE  BootInv'
<1>1. main = "pm" /\ sub = "off"
  BY DEF PmInit, BootInv, Started
<1>2. CASE build.sleep
  <2>1. Place(Plain(Alloc(pool, "PM", 4, "RTC")), <<>>, "PM", "service")
    BY <1>2 DEF PmInit
  <2>2. "PM" \in BlockId /\ "RTC" \in Cap /\ 4 \in Nat /\ "service" # "halt"
    BY DEF BlockId, Cap
  <2>3. PlainPlaced("PM", "RTC", "service")
    BY <2>1, <2>2, PlacePlain
  <2>4. Started'
    BY <1>1, <2>3 DEF PlainPlaced, Moved, Started, Has
  <2> QED BY <1>1, <2>3, <2>4, MovedStep DEF PlainPlaced, Early
<1>3. CASE ~build.sleep
  <2>1. /\ main' = "service"
        /\ UNCHANGED <<build, sub, pool, conf, handle, load, heap, boot_addr>>
    BY <1>3 DEF PmInit
  <2>2. BuildOK' /\ Paired'
    BY <2>1 DEF BootInv, BuildOK, Paired
  <2>3. BootTypes' /\ Started'
    BY <1>1, <1>3, <2>1 DEF BootInv, BootTypes, MainLabels, Started
  <2>4. World(pool, conf, handle.main, build.sleep)'
    BY <2>1 DEF BootInv
  <2>5. Loaded'
    BY <1>1, <2>1 DEF BootInv, Loaded, Early, Cells
  <2> QED BY <2>2, <2>3, <2>4, <2>5 DEF BootInv
<1> QED BY <1>2, <1>3

\* What was allocated before a step that allocates is still there after it.
LEMMA StartedStays ==
    ASSUME BootInv, Moved, main \in Early
    PROVE  /\ sub' = "off" /\ build' = build
           /\ Has("PM", "RTC") => Has("PM", "RTC")'
           /\ Has("EVENT_MAIN", "HP") => Has("EVENT_MAIN", "HP")'
           /\ Has("EVENT_SUB", "HP") => Has("EVENT_SUB", "HP")'
           /\ (\E h \in handle.main : h.id = "SYSTEM" /\ ~h.master) =>
                  \E h \in handle'.main : h.id = "SYSTEM" /\ ~h.master
<1>1. "HP" \in Cap /\ "RTC" \in Cap
  BY DEF Cap
<1>2. sub = "off"
  BY DEF BootInv, Started, BootTypes, Early
<1> QED BY <1>1, <1>2, HasStays DEF Moved

\* esp_amp_system_service_init on the main core.
LEMMA ServiceStep ==
    ASSUME BootInv, ServiceInit, Whole(pool')
    PROVE  BootInv'
<1>1. main = "service" /\ main \in Early
      /\ Place(QueueMainInit(pool, "SYSTEM", <<16, 128>>, FALSE), <<FALSE>>, "SYSTEM", "event_main")
  BY Zenon DEF ServiceInit, Early
<1>2. "SYSTEM" \in QueueId \cup {"SYSTEM"} /\ <<16, 128>> \in Shapes \cup {<<16, 128>>}
      /\ FALSE \in BOOLEAN /\ "event_main" # "halt"
  OBVIOUS
<1>3. QueuePlaced("SYSTEM", FALSE, "event_main")
  BY <1>1, <1>2, PlaceQueue, Zenon
<1>4. Moved
  BY <1>3 DEF QueuePlaced
<1>5. Started'
  BY <1>1, <1>3, <1>4, StartedStays DEF QueuePlaced, BootInv, Started
<1> QED BY <1>1, <1>3, <1>4, <1>5, MovedStep DEF QueuePlaced, Early

\* esp_amp_event_init on the main core.
LEMMA EventStep ==
    ASSUME BootInv, EventInit
    PROVE  BootInv'
<1>1. "EVENT_MAIN" \in BlockId /\ "EVENT_SUB" \in BlockId /\ "HP" \in Cap /\ 4 \in Nat
      /\ "event_sub" # "halt" /\ "app" # "halt"
  BY DEF BlockId, Cap
<1>2. CASE main = "event_main"
           /\ Place(Plain(Alloc(pool, "EVENT_MAIN", 4, "HP")), <<>>, "EVENT_MAIN", "event_sub")
  <2>1. PlainPlaced("EVENT_MAIN", "HP", "event_sub")
    BY <1>1, <1>2, PlacePlain
  <2>2. Moved /\ main \in Early
    BY <1>2, <2>1 DEF PlainPlaced, Early
  <2>3. main' = "event_sub" => Has("EVENT_MAIN", "HP")'
    BY <2>1 DEF PlainPlaced, Has
  <2>4. Started'
    BY <1>2, <2>1, <2>2, <2>3, StartedStays DEF PlainPlaced, BootInv, Started
  <2> QED BY <2>1, <2>2, <2>4, MovedStep DEF PlainPlaced, Early
<1>3. CASE main = "event_sub"
           /\ Place(Plain(Alloc(pool, "EVENT_SUB", 4, "HP")), <<>>, "EVENT_SUB", "app")
  <2>1. PlainPlaced("EVENT_SUB", "HP", "app")
    BY <1>1, <1>3, PlacePlain
  <2>2. Moved /\ main \in Early
    BY <1>3, <2>1 DEF PlainPlaced, Early
  <2>3. main' = "app" => Has("EVENT_SUB", "HP")'
    BY <2>1 DEF PlainPlaced, Has
  <2>4. Started'
    BY <1>3, <2>1, <2>2, <2>3, StartedStays DEF PlainPlaced, BootInv, Started
  <2> QED BY <2>1, <2>2, <2>4, MovedStep DEF PlainPlaced, Early
<1> QED BY <1>2, <1>3 DEF EventInit

\* What the application creates before it loads the subcore.
LEMMA AppStep ==
    ASSUME BootInv, EventCreate \/ AppAlloc \/ AppQueue \/ AppRpmsg, Whole(pool')
    PROVE  BootInv'
<1>1. main = "app" /\ main \in Early
  BY DEF EventCreate, AppAlloc, AppQueue, AppRpmsg, Early
<1>2. "HP" \in Cap /\ 4 \in Nat /\ "app" # "halt" /\ RawSize \in Nat
  BY PoolAssumption DEF Cap
<1>3. Moved /\ (main' = "app" \/ main' = "halt")
  <2>1. CASE EventCreate
    <3>1. PICK id \in EventId : Place(Plain(Alloc(pool, id, 4, "HP")), <<>>, id, "app")
      BY <2>1 DEF EventCreate
    <3>2. id \in BlockId
      BY DEF BlockId
    <3>3. PlainPlaced(id, "HP", "app")
      BY <1>2, <3>1, <3>2, PlacePlain
    <3> QED BY <3>3 DEF PlainPlaced
  <2>2. CASE AppAlloc
    <3>1. PICK id \in RawId, c \in Cap : Place(Plain(Alloc(pool, id, RawSize, c)), <<>>, id, "app")
      BY <2>2 DEF AppAlloc
    <3>2. id \in BlockId
      BY DEF BlockId
    <3>3. PlainPlaced(id, c, "app")
      BY <1>2, <3>1, <3>2, PlacePlain
    <3> QED BY <3>3 DEF PlainPlaced
  <2>3. CASE AppQueue
    <3>1. PICK id \in QueueId, s \in Shapes, m \in BOOLEAN :
              Place(QueueMainInit(pool, id, s, m), <<m>>, id, "app")
      BY <2>3 DEF AppQueue
    <3>2. id \in QueueId \cup {"SYSTEM"} /\ s \in Shapes \cup {<<16, 128>>}
      OBVIOUS
    <3>3. QueuePlaced(id, m, "app")
      BY <1>2, <3>1, <3>2, PlaceQueue
    <3> QED BY <3>3 DEF QueuePlaced
  <2>4. CASE AppRpmsg
    <3>1. PICK id \in RpmsgId, s \in Shapes :
              Place(RpmsgMainInit(pool, id, s), <<TRUE, FALSE>>, id, "app")
      BY <2>4 DEF AppRpmsg
    <3>2. s \in Shapes \cup {<<16, 128>>}
      OBVIOUS
    <3> QED BY <3>1, <3>2, PlaceRpmsg
  <2> QED BY <2>1, <2>2, <2>3, <2>4
<1>4. Started'
  BY <1>1, <1>3, StartedStays DEF BootInv, Started
<1> QED BY <1>1, <1>3, <1>4, MovedStep DEF Early

\* The loader keeps the image below the unused cells.
LEMMA LoadedStep ==
    ASSUME Loaded, LoadBegin \/ LoadSegment \/ LoadEnd \/ StartSubcore
    PROVE  Loaded'
<1>2. main \in {"app", "loading", "loaded"}
  BY Zenon DEF LoadBegin, LoadSegment, LoadEnd, StartSubcore
<1>6. HpCells \in Nat
  BY PoolAssumption
<1>7. /\ load = [image |-> load.image, seg |-> load.seg, ok |-> load.ok,
                 unused |-> load.unused, cells |-> load.cells, over |-> load.over]
      /\ load.over \in BOOLEAN /\ load.unused \in Nat /\ load.unused <= HpCells
      /\ \A x \in load.cells : x \in Nat /\ x < load.unused
  BY DEF Loaded
<1>8. /\ load' = [image |-> load'.image, seg |-> load'.seg, ok |-> load'.ok,
                  unused |-> load'.unused, cells |-> load'.cells, over |-> load'.over]
      /\ load'.over \in BOOLEAN /\ load'.unused \in Nat /\ load'.unused <= HpCells
      /\ \A x \in load'.cells : x \in Nat /\ x < load'.unused
  <2>1. CASE LoadBegin
    <3>1. PICK i \in Images : load' = [load EXCEPT !.image = i, !.seg = 1, !.ok = i.entry,
                                                  !.unused = 0, !.cells = {}]
      BY <2>1, Zenon DEF LoadBegin
    <3>2. load' = [image |-> i, seg |-> 1, ok |-> i.entry, unused |-> 0, cells |-> {},
                   over |-> load.over]
      BY <1>7, <3>1, Zenon
    <3> QED BY <1>6, <1>7, <3>2
  <2>2. CASE LoadSegment
    <3> DEFINE s == load.image.segs[load.seg]
               new == IF s.mem = "hp" THEN s.from..(s.to - 1) ELSE {}
               top == IF s.mem = "hp" /\ s.to > load.unused THEN s.to ELSE load.unused
               ov == load.over \/ (s.mem = "rtc" /\ s.to > RtcOwn)
    <3>1. CASE ValidAddr(s.mem, s.from) /\ ValidAddr(s.mem, s.to)
      <4>1. load' = [load EXCEPT !.seg = @ + 1, !.cells = @ \cup new, !.over = ov, !.unused = top]
        BY <2>2, <3>1, Zenon DEF LoadSegment
      <4>2. s.mem = "hp" => s.from \in 0..HpCells /\ s.to \in 0..HpCells
        BY <3>1 DEF ValidAddr
      <4>3. top \in Nat /\ top <= HpCells /\ load.unused <= top
            /\ \A x \in new : x \in Nat /\ x < top
        BY <1>6, <1>7, <4>2, SMTT(30)
      <4>6. ov \in BOOLEAN
        BY Zenon
      <4> HIDE DEF new, top, ov
      <4>4. load' = [image |-> load.image, seg |-> load.seg + 1, ok |-> load.ok,
                     unused |-> top, cells |-> load.cells \cup new, over |-> ov]
        BY <1>7, <4>1, Zenon
      <4>5. \A x \in load.cells \cup new : x \in Nat /\ x < top
        BY <1>7, <4>3
      <4> QED BY <4>3, <4>4, <4>5, <4>6
    <3>2. CASE ~(ValidAddr(s.mem, s.from) /\ ValidAddr(s.mem, s.to))
      <4>1. load' = IF s.mem = "drom" /\ s.magic THEN [load EXCEPT !.seg = @ + 1]
                    ELSE [load EXCEPT !.ok = FALSE]
        BY <2>2, <3>2 DEF LoadSegment
      <4> HIDE DEF s
      <4> QED BY <1>7, <4>1, Zenon
    <3> QED BY <3>1, <3>2
  <2>3. CASE LoadEnd \/ StartSubcore
    BY <2>3, <1>7 DEF LoadEnd, StartSubcore
  <2> QED BY <2>1, <2>2, <2>3
<1>9. main' \notin Early
  BY <1>2, Zenon DEF LoadBegin, LoadSegment, LoadEnd, StartSubcore, Early
<1>10. heap' \subseteq Cells /\ (main' \in Early \cup {"loading"} => heap' = {})
       /\ (main' \in {"loaded", "running"} => \A x \in heap' : x \in Nat /\ load'.unused <= x)
  <2>1. CASE LoadBegin \/ LoadSegment
    BY <2>1, <1>2, Zenon DEF LoadBegin, LoadSegment, Loaded, Early
  <2>2. CASE LoadEnd
    <3>1. heap = {} /\ load' = load /\ main' = IF load.ok THEN "loaded" ELSE "halt"
      BY <2>2 DEF LoadEnd, Loaded, Early
    <3>2. CASE load.ok
      <4>1. heap' = load.unused..(HpCells - 1)
        BY <2>2, <3>1, <3>2 DEF LoadEnd
      <4> QED BY <1>6, <1>7, <3>1, <3>2, <4>1 DEF Cells, Early
    <3>3. CASE ~load.ok
      BY <2>2, <3>1, <3>3 DEF LoadEnd, Early
    <3> QED BY <3>2, <3>3
  <2>3. CASE StartSubcore
    BY <2>3, <1>2 DEF StartSubcore, Loaded, Early
  <2> QED BY <2>1, <2>2, <2>3
<1> QED BY <1>8, <1>9, <1>10 DEF Loaded, Cells

\* The steps of the loader and the start leave the shared memory alone.
LEMMA LoaderStep ==
    ASSUME BootInv, LoadBegin \/ LoadSegment \/ LoadEnd \/ StartSubcore, ~load'.over
    PROVE  BootInv'
<1>1. build' = build /\ conf' = conf /\ handle' = handle
  BY Zenon DEF LoadBegin, LoadSegment, LoadEnd, StartSubcore
<1>2. main \in {"app", "loading", "loaded"} /\ sub = "off"
  BY Zenon DEF LoadBegin, LoadSegment, LoadEnd, StartSubcore, BootInv, Started
<1>3. pool' = pool
  <2>1. CASE LoadBegin \/ LoadEnd \/ StartSubcore
    BY <2>1, Zenon DEF LoadBegin, LoadEnd, StartSubcore
  <2>2. CASE LoadSegment
    <3> DEFINE s == load.image.segs[load.seg]
               new == IF s.mem = "hp" THEN s.from..(s.to - 1) ELSE {}
               top == IF s.mem = "hp" /\ s.to > load.unused THEN s.to ELSE load.unused
               ov == s.mem = "rtc" /\ s.to > RtcOwn
    <3>1. CASE ValidAddr(s.mem, s.from) /\ ValidAddr(s.mem, s.to)
      <4>1. /\ load' = [load EXCEPT !.seg = @ + 1, !.cells = @ \cup new, !.over = @ \/ ov,
                                    !.unused = top]
            /\ pool' = IF ov THEN [pool EXCEPT !["RTC"] = <<>>] ELSE pool
        BY <2>2, <3>1, Zenon DEF LoadSegment
      <4>2. load = [image |-> load.image, seg |-> load.seg, ok |-> load.ok,
                    unused |-> load.unused, cells |-> load.cells, over |-> load.over]
        BY DEF BootInv, Loaded
      <4> HIDE DEF new, top, ov
      <4>3. load' = [image |-> load.image, seg |-> load.seg + 1, ok |-> load.ok,
                     unused |-> top, cells |-> load.cells \cup new, over |-> load.over \/ ov]
        BY <4>1, <4>2, Zenon
      <4>4. ~ov
        BY <4>3, Zenon
      <4> QED BY <4>1, <4>4
    <3>2. CASE ~(ValidAddr(s.mem, s.from) /\ ValidAddr(s.mem, s.to))
      BY <2>2, <3>2, Zenon DEF LoadSegment
    <3> QED BY <3>1, <3>2
  <2> QED BY <2>1, <2>2
<1>4. BuildOK' /\ Paired' /\ World(pool, conf, handle.main, build.sleep)'
  BY <1>1, <1>3 DEF BootInv, BuildOK, Paired
<1>5. /\ main' \in {"loading", "loaded", "running", "halt"}
      /\ sub' \in {"off", "pm"} /\ (sub' = "off" \/ main' = "running")
  BY <1>2, Zenon DEF LoadBegin, LoadSegment, LoadEnd, StartSubcore, StopSubcore
<1>6. Started'
  BY <1>1, <1>2, <1>3, <1>5 DEF BootInv, Started, Has
<1>7. BootTypes'
  <2>1. main' \in MainLabels /\ sub' \in SubLabels
    BY <1>5 DEF MainLabels, SubLabels
  <2> QED BY <1>1, <2>1 DEF BootInv, BootTypes
<1>8. Loaded'
  BY LoadedStep DEF BootInv
<1> QED BY <1>4, <1>6, <1>7, <1>8 DEF BootInv

\* What has been allocated is found.
LEMMA Found ==
    ASSUME BootInv, NEW id, NEW c \in Cap, c = "RTC" => build.lp, Has(id, c)
    PROVE  Get(id, c) # NULL
<1>1. PICK k \in 1 .. Len(pool[c]) : pool[c][k].id = id
  BY DEF Has
<1>2. PoolOK(pool)
  BY DEF BootInv, World
<1>3. Get(pool[c][k].id, c) # NULL
  BY <1>2, GetFacts
<1> QED BY <1>1, <1>3

\* The id of a handle of the main core leads the subcore to the same block.
LEMMA FoundBlock ==
    ASSUME BootInv, NEW h \in handle.main
    PROVE  \E b \in Block : /\ Get(h.id, "HP") = At("HP", b) /\ Get(h.id, "HP") # NULL
                            /\ LeadsTo(conf, handle.main, h, b, build.sleep)
<1>1. PICK k \in 1 .. Len(pool["HP"]) : LeadsTo(conf, handle.main, h, pool["HP"][k], build.sleep)
  BY DEF BootInv, World, Attached
<1>2. PoolOK(pool) /\ "HP" \in Cap
  BY DEF BootInv, World, Cap
<1>3. Get(pool["HP"][k].id, "HP") = At("HP", pool["HP"][k]) /\ Get(pool["HP"][k].id, "HP") # NULL
  BY <1>2, GetFacts
<1>4. pool["HP"][k] \in Block /\ pool["HP"][k].id = h.id
  BY <1>1, <1>2 DEF PoolOK, ListOK, LeadsTo
<1> QED BY <1>1, <1>3, <1>4

\* The configuration at the start of a block belongs to one ring only.
LEMMA RingFound ==
    ASSUME BootInv, NEW x \in conf
    PROVE  RingAt(x.conf) = x
BY DEF BootInv, World, RingsOK, RingAt

\* A step of the subcore that finds what it looks for.
SubPairs(handles) ==
    \A h \in handles :
        /\ h \in HandleSet /\ Handle(h.id, h.ring, ~h.master) \in handle.main
        /\ (build.sleep /\ ~h.master) => h.ring.desc.cap = "RTC"

\* A step of the subcore that attaches to nothing.
LEMMA SubGoesOn ==
    ASSUME BootInv, sub # "off", NEW found, found, NEW handles, SubPairs(handles),
           NEW next \in SubLabels, next # "off", SubGoes(found, handles, next)
    PROVE  BootInv'
<1>1. main = "running"
  BY DEF BootInv, Started
<1>2. /\ sub' = next /\ build' = build /\ main' = main /\ pool' = pool /\ conf' = conf
      /\ load' = load /\ heap' = heap
  BY DEF SubGoes
<1>3. handle' = [main |-> handle.main, sub |-> handle.sub \cup handles]
  BY DEF SubGoes, BootInv, BootTypes
<1>4. BuildOK'
  BY <1>2 DEF BootInv, BuildOK
<1>5. BootTypes'
  BY <1>2, <1>3 DEF BootInv, BootTypes, SubPairs
<1>6. World(pool, conf, handle.main, build.sleep)'
  BY <1>2, <1>3 DEF BootInv
<1>7. Started'
  BY <1>1, <1>2, <1>3 DEF BootInv, Started, Has
<1>8. Loaded'
  BY <1>1, <1>2 DEF BootInv, Loaded, Early, Cells
<1>9. Paired'
  BY <1>2, <1>3, Zenon DEF BootInv, Paired, SubPairs
<1> QED BY <1>4, <1>5, <1>6, <1>7, <1>8, <1>9 DEF BootInv

\* esp_amp_queue_sub_init attaches to the ring of the main core's handle.
LEMMA QueueSub ==
    ASSUME BootInv, NEW h \in handle.main, h.id \notin RpmsgId
    PROVE  Get(h.id, "HP") # NULL /\ SubPairs(QueueSubInit(h.id, ~h.master))
<1>1. PICK b \in Block : /\ Get(h.id, "HP") = At("HP", b) /\ Get(h.id, "HP") # NULL
                         /\ LeadsTo(conf, handle.main, h, b, build.sleep)
  BY FoundBlock
<1>2. h.ring \in conf /\ h.ring.conf = At("HP", b)
      /\ ((build.sleep /\ h.master) => h.ring.desc.cap = "RTC")
  BY <1>1 DEF LeadsTo, QueueAt
<1>3. RingAt(Get(h.id, "HP")) = h.ring
  BY <1>1, <1>2, RingFound
<1>4. h \in HandleSet
  BY DEF BootInv, World
<1>5. h = [id |-> h.id, ring |-> h.ring, master |-> h.master] /\ h.master \in BOOLEAN
  BY <1>4 DEF HandleSet
<1> DEFINE g == Handle(h.id, h.ring, ~h.master)
<1>6. g.id = h.id /\ g.ring = h.ring /\ g.master = ~h.master
  BY DEF Handle
<1>7. g \in HandleSet
  BY <1>4 DEF Handle, HandleSet
<1>8. Handle(g.id, g.ring, ~g.master) = h
  BY <1>5, <1>6, Zenon DEF Handle
<1>9. QueueSubInit(h.id, ~h.master) = {g}
  BY <1>3 DEF QueueSubInit
<1> HIDE DEF g
<1>10. SubPairs({g})
  BY <1>2, <1>5, <1>6, <1>7, <1>8, Zenon DEF SubPairs
<1> QED BY <1>1, <1>9, <1>10

\* esp_amp_rpmsg_sub_init_by_id attaches to both, with the roles exchanged.
LEMMA RpmsgSub ==
    ASSUME BootInv, NEW h \in handle.main, h.id \in RpmsgId
    PROVE  Get(h.id, "HP") # NULL /\ SubPairs(RpmsgSubInit(h.id))
<1>1. PICK b \in Block : /\ Get(h.id, "HP") = At("HP", b) /\ Get(h.id, "HP") # NULL
                         /\ LeadsTo(conf, handle.main, h, b, build.sleep)
  BY FoundBlock
<1>2. PICK x \in conf, y \in conf :
          /\ x.conf = At("HP", b) /\ y.conf = Off("HP", b, CONF)
          /\ Handle(h.id, x, TRUE) \in handle.main /\ Handle(h.id, y, FALSE) \in handle.main
          /\ build.sleep => x.desc.cap = "RTC"
  BY <1>1, Zenon DEF LeadsTo, RpmsgAt
<1>3. Plus(At("HP", b), CONF) = Off("HP", b, CONF)
  BY Offsets DEF Cap, CONF
<1> DEFINE ptr == Get(h.id, "HP")
<1>4. RingAt(ptr) = x /\ RingAt(Plus(ptr, CONF)) = y
  BY <1>1, <1>2, <1>3, RingFound
<1> DEFINE f == Handle(h.id, y, TRUE)
           g == Handle(h.id, x, FALSE)
<1>5. RpmsgSubInit(h.id) = {f, g}
  BY <1>4, Zenon DEF RpmsgSubInit, SubRings
<1>6. /\ f.id = h.id /\ f.ring = y /\ f.master = TRUE
      /\ g.id = h.id /\ g.ring = x /\ g.master = FALSE
  BY DEF Handle
<1>7. f \in HandleSet /\ g \in HandleSet
  <2>1. h.id \in RingId /\ x \in RingSet /\ y \in RingSet
    BY DEF RingId, BootInv, World, RingsOK
  <2> QED BY <2>1 DEF Handle, HandleSet
<1> HIDE DEF f, g
<1>8. SubPairs({f, g})
  BY <1>2, <1>6, <1>7, Zenon DEF SubPairs
<1> QED BY <1>1, <1>5, <1>8

\* The initialisation functions of the subcore find what the main core made.
LEMMA SubStep ==
    ASSUME BootInv, SubPmInit \/ SubServiceInit \/ SubEventInit \/ SubQueue \/ SubRpmsg
    PROVE  BootInv'
<1>1. sub # "off" /\ "HP" \in Cap /\ "RTC" \in Cap
  BY Zenon DEF SubPmInit, SubServiceInit, SubEventInit, SubQueue, SubRpmsg, Cap
<1>2. main = "running"
  BY <1>1 DEF BootInv, Started
<1>3. SubPairs({})
  BY DEF SubPairs
<1>4. "service" \in SubLabels /\ "event" \in SubLabels /\ "app" \in SubLabels
  BY DEF SubLabels
<1>5. CASE SubPmInit
  <2>1. build.sleep => Get("PM", "RTC") # NULL
    BY <1>1, <1>2, Found DEF BootInv, Started, BuildOK
  <2>2. SubGoes(build.sleep => Get("PM", "RTC") # NULL, {}, "service")
    BY <1>5 DEF SubPmInit
  <2> QED BY <1>1, <1>3, <1>4, <2>1, <2>2, SubGoesOn, Zenon
<1>6. CASE SubServiceInit
  <2>1. PICK h \in handle.main : h.id = "SYSTEM" /\ ~h.master
    BY <1>2 DEF BootInv, Started
  <2>2. "SYSTEM" \notin RpmsgId
    BY IdAssumption
  <2>3. Get("SYSTEM", "HP") # NULL /\ SubPairs(QueueSubInit("SYSTEM", ~h.master))
    BY <2>1, <2>2, QueueSub
  <2>4. ~h.master = TRUE
    BY <2>1
  <2>5. SubPairs(QueueSubInit("SYSTEM", TRUE))
    BY <2>3, <2>4, Zenon
  <2>6. SubGoes(Get("SYSTEM", "HP") # NULL, QueueSubInit("SYSTEM", TRUE), "event")
    BY <1>6, Zenon DEF SubServiceInit
  <2> QED BY <1>1, <1>4, <2>3, <2>5, <2>6, SubGoesOn, Zenon
<1>7. CASE SubEventInit
  <2>1. Get("EVENT_MAIN", "HP") # NULL /\ Get("EVENT_SUB", "HP") # NULL
    BY <1>1, <1>2, Found DEF BootInv, Started
  <2>2. SubGoes(Get("EVENT_MAIN", "HP") # NULL /\ Get("EVENT_SUB", "HP") # NULL, {}, "app")
    BY <1>7 DEF SubEventInit
  <2> QED BY <1>1, <1>3, <1>4, <2>1, <2>2, SubGoesOn, Zenon
<1>8. CASE SubQueue
  <2>1. PICK h \in handle.main :
            /\ h.id \in QueueId
            /\ SubGoes(Get(h.id, "HP") # NULL, QueueSubInit(h.id, ~h.master), "app")
    BY <1>8 DEF SubQueue
  <2>2. h.id \notin RpmsgId
    BY <2>1, IdAssumption
  <2>3. Get(h.id, "HP") # NULL /\ SubPairs(QueueSubInit(h.id, ~h.master))
    BY <2>2, QueueSub
  <2> QED BY <1>1, <1>4, <2>1, <2>3, SubGoesOn, Zenon
<1>9. CASE SubRpmsg
  <2>1. PICK h \in handle.main :
            h.id \in RpmsgId /\ SubGoes(Get(h.id, "HP") # NULL, RpmsgSubInit(h.id), "app")
    BY <1>9 DEF SubRpmsg
  <2>2. Get(h.id, "HP") # NULL /\ SubPairs(RpmsgSubInit(h.id))
    BY <2>1, RpmsgSub
  <2> QED BY <1>1, <1>4, <2>1, <2>2, SubGoesOn, Zenon
<1> QED BY <1>5, <1>6, <1>7, <1>8, <1>9

-----------------------------------------------------------------------------
(* The shared memory                                                       *)

\* What an extent is: a sentinel, the header of a block, a block that holds no
\* ring, or a part of a ring.
Sentinel(e) == \E c \in Cap : e = Extent(<<"header", 0>>, c, 0, HDR)
Header(e, b) == e = Extent(<<"header", b.at>>, e.cap, b.at, HDR)
Body(e, b) == b.id \notin RingId /\ e = Extent(<<"block", b.at>>, e.cap, b.at + HDR, b.size)
Ringed(e, b) == b.id \in RingId /\ e \in Parts(conf) /\ In(b, e)
InBlock(e, b) == Header(e, b) \/ Body(e, b) \/ Ringed(e, b)

\* Every extent is the sentinel of its pool or lies in one of its blocks.
LEMMA Kinds ==
    ASSUME BootInv, NEW e \in Extents
    PROVE  e.cap \in Cap /\ (Sentinel(e) \/ \E k \in 1 .. Len(pool[e.cap]) : InBlock(e, pool[e.cap][k]))
<1>1. CASE e \in {Extent(<<"header", 0>>, c, 0, HDR) : c \in Cap}
  BY <1>1 DEF Sentinel, Extent
<1>2. CASE e \in Parts(conf)
  <2>1. Placed(pool, e)
    BY <1>2 DEF BootInv, World, RingsOK
  <2> QED BY <1>2, <2>1 DEF Placed, InBlock, Ringed
<1>3. CASE e \in UNION {UNION {BlockParts(c, b) : b \in Range(pool[c])} : c \in Cap}
  <2>1. PICK c \in Cap : \E b \in Range(pool[c]) : e \in BlockParts(c, b)
    BY <1>3
  <2>2. PICK b \in Range(pool[c]) : e \in BlockParts(c, b)
    BY <2>1
  <2>3. pool[c] \in Seq(Block)
    BY DEF BootInv, World, PoolOK, ListOK
  <2>4. PICK k \in 1 .. Len(pool[c]) : b = pool[c][k]
    BY <2>2, <2>3 DEF Range
  <2>5. CASE e = Extent(<<"header", b.at>>, c, b.at, HDR)
    <3>1. e.cap = c
      BY <2>5 DEF Extent
    <3>2. Header(e, b)
      BY <2>5, <3>1 DEF Header
    <3> QED BY <2>4, <3>1, <3>2 DEF InBlock
  <2>6. CASE e \in {Extent(<<"block", b.at>>, c, b.at + HDR, b.size) :
                       x \in {b.id} \ (QueueId \cup RpmsgId \cup {"SYSTEM"})}
    <3>1. b.id \notin RingId /\ e = Extent(<<"block", b.at>>, c, b.at + HDR, b.size)
      BY <2>6 DEF RingId
    <3>2. e.cap = c
      BY <3>1 DEF Extent
    <3>3. Body(e, b)
      BY <3>1, <3>2 DEF Body
    <3> QED BY <2>4, <3>2, <3>3 DEF InBlock
  <2> QED BY <2>2, <2>5, <2>6 DEF BlockParts
<1>4. Extents = {Extent(<<"header", 0>>, c, 0, HDR) : c \in Cap} \cup Parts(conf)
                  \cup (UNION {UNION {BlockParts(c, b) : b \in Range(pool[c])} : c \in Cap})
  BY DEF Extents, Parts
<1> QED BY <1>1, <1>2, <1>3, <1>4, Zenon

\* An extent lies inside its block.
LEMMA Bounds ==
    ASSUME NEW b \in Block, NEW e, InBlock(e, b)
    PROVE  /\ e.from \in Nat /\ e.to \in Nat /\ b.at <= e.from /\ e.to <= BlockEnd(b)
           /\ b.at \in Nat /\ BlockEnd(b) \in Nat
<1>1. /\ b.at \in Nat /\ b.size \in Nat /\ BlockEnd(b) \in Nat
      /\ b.at + HDR + b.size <= BlockEnd(b)
  BY BlockFacts
<1>2. CASE Header(e, b)
  <2>1. e.from = b.at /\ e.to = b.at + HDR
    BY <1>2 DEF Header, Extent
  <2> QED BY <1>1, <2>1 DEF HDR
<1>3. CASE Body(e, b)
  <2>1. e.from = b.at + HDR /\ e.to = b.at + HDR + b.size
    BY <1>3 DEF Body, Extent
  <2> QED BY <1>1, <2>1 DEF HDR
<1>4. CASE Ringed(e, b)
  BY <1>1, <1>4 DEF Ringed, In, HDR
<1> QED BY <1>2, <1>3, <1>4 DEF InBlock

\* Two extents in the same block.
LEMMA SameBlock ==
    ASSUME BootInv, NEW b \in Block, NEW e, NEW f, InBlock(e, b), InBlock(f, b),
           e # f, e.cap = f.cap
    PROVE  Apart(e, f)
<1>1. b.at \in Nat /\ b.size \in Nat
  BY BlockFacts
<1>2. ASSUME NEW x, Header(x, b) PROVE x.to = b.at + HDR /\ x.from = b.at
  BY <1>2 DEF Header, Extent
<1>3. ASSUME NEW x, Body(x, b) \/ Ringed(x, b) PROVE x.from \in Nat /\ b.at + HDR <= x.from
  <2>1. CASE Body(x, b)
    BY <1>1, <2>1 DEF Body, Extent, HDR
  <2>2. CASE Ringed(x, b)
    BY <2>2 DEF Ringed, In
  <2> QED BY <1>3, <2>1, <2>2
<1>4. CASE Header(e, b) /\ Header(f, b)
  BY <1>4 DEF Header
<1>5. CASE Header(e, b) /\ ~Header(f, b)
  BY <1>2, <1>3, <1>5 DEF InBlock, Apart
<1>6. CASE ~Header(e, b) /\ Header(f, b)
  BY <1>2, <1>3, <1>6 DEF InBlock, Apart
<1>7. CASE Body(e, b) /\ Body(f, b)
  BY <1>7 DEF Body
<1>8. CASE Ringed(e, b) /\ Ringed(f, b)
  BY <1>8 DEF Ringed, BootInv, World, RingsOK, AllApart
<1>9. ~(Body(e, b) /\ Ringed(f, b)) /\ ~(Ringed(e, b) /\ Body(f, b))
  BY DEF Body, Ringed
<1> QED BY <1>4, <1>5, <1>6, <1>7, <1>8, <1>9 DEF InBlock

\* No two extents of a pool overlap.
LEMMA ExtentsApart ==
    ASSUME BootInv, NEW e \in Extents, NEW f \in Extents, e # f, e.cap = f.cap
    PROVE  e.to <= f.from \/ f.to <= e.from
<1> DEFINE c == e.cap
           list == pool[c]
<1>1. c \in Cap
  BY Kinds
<1>2. ListOK(c, list) /\ list \in Seq(Block)
  BY <1>1 DEF BootInv, World, PoolOK, ListOK
<1>3. \A k \in 1 .. Len(list) : list[k] \in Block /\ list[k].at >= HDR
  BY <1>2, SMTT(30) DEF ListOK
<1>4. ASSUME NEW x, Sentinel(x) PROVE x.to = HDR /\ x.from = 0 /\ x = Extent(<<"header", 0>>, x.cap, 0, HDR)
  BY <1>4 DEF Sentinel, Extent, HDR
<1>5. ASSUME NEW x, NEW y, Sentinel(x), NEW k \in 1 .. Len(list), InBlock(y, list[k])
      PROVE  x.to <= y.from
  <2>1. y.from \in Nat /\ list[k].at <= y.from /\ list[k].at \in Nat
    BY <1>3, <1>5, Bounds
  <2> QED BY <1>3, <1>4, <1>5, <2>1 DEF HDR
<1>6. ASSUME NEW x, NEW y, NEW j \in 1 .. Len(list), NEW k \in 1 .. Len(list), j < k,
             InBlock(x, list[j]), InBlock(y, list[k])
      PROVE  x.to <= y.from
  <2>1. x.to \in Nat /\ x.to <= BlockEnd(list[j]) /\ BlockEnd(list[j]) \in Nat
    BY <1>3, <1>6, Bounds
  <2>2. y.from \in Nat /\ list[k].at <= y.from /\ list[k].at \in Nat
    BY <1>3, <1>6, Bounds
  <2>3. BlockEnd(list[j]) <= list[k].at
    BY <1>2, <1>6 DEF ListOK
  <2> QED BY <2>1, <2>2, <2>3
<1>7. CASE Sentinel(e) /\ Sentinel(f)
  BY <1>4, <1>7
<1>8. CASE Sentinel(e) /\ \E k \in 1 .. Len(list) : InBlock(f, list[k])
  BY <1>5, <1>8
<1>9. CASE Sentinel(f) /\ \E k \in 1 .. Len(list) : InBlock(e, list[k])
  BY <1>5, <1>9
<1>10. ASSUME NEW j \in 1 .. Len(list), NEW k \in 1 .. Len(list),
              InBlock(e, list[j]), InBlock(f, list[k])
       PROVE  e.to <= f.from \/ f.to <= e.from
  <2>1. CASE j < k
    BY <1>6, <1>10, <2>1
  <2>2. CASE k < j
    BY <1>6, <1>10, <2>2
  <2>3. CASE j = k
    BY <1>3, <1>10, <2>3, SameBlock DEF Apart
  <2>4. j \in Int /\ k \in Int
    BY <1>2
  <2> QED BY <2>1, <2>2, <2>3, <2>4
<1> QED BY <1>7, <1>8, <1>9, <1>10, Kinds

\* No extent reaches beyond its pool.
LEMMA ExtentsInside ==
    ASSUME BootInv, NEW e \in Extents
    PROVE  e.to <= PoolEnd(e.cap)
<1>1. e.cap \in Cap
  BY Kinds
<1>2. CASE Sentinel(e)
  <2>1. e.to = HDR
    BY <1>2 DEF Sentinel, Extent, HDR
  <2> QED BY <1>1, <2>1, PoolAssumption DEF PoolEnd, Cap
<1>3. ASSUME NEW k \in 1 .. Len(pool[e.cap]), InBlock(e, pool[e.cap][k])
      PROVE  e.to <= PoolEnd(e.cap)
  <2>1. pool[e.cap][k] \in Block /\ BlockEnd(pool[e.cap][k]) <= PoolEnd(e.cap)
    BY <1>1 DEF BootInv, World, PoolOK, ListOK
  <2>2. e.to \in Nat /\ e.to <= BlockEnd(pool[e.cap][k]) /\ BlockEnd(pool[e.cap][k]) \in Nat
    BY <1>3, <2>1, Bounds
  <2>3. PoolEnd(e.cap) \in Nat
    BY PoolAssumption DEF PoolEnd
  <2> QED BY <2>1, <2>2, <2>3
<1> QED BY <1>2, <1>3, Kinds

-----------------------------------------------------------------------------
(* Whatever is overwritten                                                 *)

\* The header and the bytes of a block.
Whatever(e, b) == Header(e, b) \/ e = Extent(<<"block", b.at>>, e.cap, b.at + HDR, b.size)

\* Every extent of the list is the sentinel or belongs to a block.
LEMMA BlockKinds ==
    ASSUME PoolOK(pool), NEW e \in BlockExtents
    PROVE  e.cap \in Cap /\ (Sentinel(e) \/ \E k \in 1 .. Len(pool[e.cap]) : Whatever(e, pool[e.cap][k]))
<1>1. CASE e \in {Extent(<<"header", 0>>, c, 0, HDR) : c \in Cap}
  BY <1>1 DEF Sentinel, Extent
<1>2. ASSUME NEW c \in Cap, NEW b \in Range(pool[c]),
             \/ e = Extent(<<"header", b.at>>, c, b.at, HDR)
             \/ e = Extent(<<"block", b.at>>, c, b.at + HDR, b.size)
      PROVE  e.cap \in Cap /\ \E k \in 1 .. Len(pool[e.cap]) : Whatever(e, pool[e.cap][k])
  <2>1. pool[c] \in Seq(Block)
    BY DEF PoolOK, ListOK
  <2>2. PICK k \in 1 .. Len(pool[c]) : b = pool[c][k]
    BY <2>1 DEF Range
  <2>3. e.cap = c
    BY <1>2 DEF Extent
  <2>4. Whatever(e, b)
    BY <1>2, <2>3 DEF Whatever, Header
  <2> QED BY <2>2, <2>3, <2>4
<1>3. CASE e \in UNION {UNION {{Extent(<<"header", b.at>>, c, b.at, HDR),
                               Extent(<<"block", b.at>>, c, b.at + HDR, b.size)} :
                                 b \in Range(pool[c])} : c \in Cap}
  <2>1. PICK c \in Cap : e \in UNION {{Extent(<<"header", b.at>>, c, b.at, HDR),
                                        Extent(<<"block", b.at>>, c, b.at + HDR, b.size)} :
                                          b \in Range(pool[c])}
    BY <1>3, Zenon
  <2>2. PICK b \in Range(pool[c]) : \/ e = Extent(<<"header", b.at>>, c, b.at, HDR)
                                     \/ e = Extent(<<"block", b.at>>, c, b.at + HDR, b.size)
    BY <2>1, Zenon
  <2> QED BY <1>2, <2>2, Zenon
<1> QED BY <1>1, <1>3, Zenon DEF BlockExtents

\* Where the two extents of a block are.
LEMMA BlockBounds ==
    ASSUME NEW b \in Block, NEW e, Whatever(e, b)
    PROVE  /\ b.at \in Nat /\ BlockEnd(b) \in Nat /\ b.at <= e.from /\ e.to <= BlockEnd(b)
           /\ e.from \in Nat /\ e.to \in Nat
           /\ IF Header(e, b) THEN e.to = b.at + HDR ELSE e.from = b.at + HDR
<1>1. /\ b.at \in Nat /\ b.size \in Nat /\ BlockEnd(b) \in Nat
      /\ b.at + HDR + b.size <= BlockEnd(b)
  BY BlockFacts
<1>2. CASE Header(e, b)
  <2>1. e.from = b.at /\ e.to = b.at + HDR
    BY <1>2 DEF Header, Extent
  <2> QED BY <1>1, <1>2, <2>1 DEF HDR
<1>3. CASE ~Header(e, b)
  <2>1. e.from = b.at + HDR /\ e.to = b.at + HDR + b.size
    BY <1>3 DEF Whatever, Extent
  <2> QED BY <1>1, <1>3, <2>1 DEF HDR
<1> QED BY <1>2, <1>3

\* The blocks of a well-formed list are apart and inside the pool.
LEMMA BlocksSeparate ==
    ASSUME PoolOK(pool)
    PROVE  Separate(BlockExtents)
<1>1. ASSUME NEW c \in Cap, NEW k \in 1 .. Len(pool[c])
      PROVE  pool[c][k] \in Block /\ pool[c][k].at >= HDR /\ BlockEnd(pool[c][k]) <= PoolEnd(c)
  <2>1. pool[c] \in Seq(Block) /\ ListOK(c, pool[c])
    BY DEF PoolOK, ListOK
  <2> QED BY <2>1 DEF ListOK
<1>2. ASSUME NEW x, Sentinel(x) PROVE x.to = HDR /\ x = Extent(<<"header", 0>>, x.cap, 0, HDR)
  BY <1>2 DEF Sentinel, Extent, HDR
<1>3. ASSUME NEW e \in BlockExtents PROVE e.to <= PoolEnd(e.cap)
  <2>1. e.cap \in Cap
    BY BlockKinds
  <2>2. CASE Sentinel(e)
    BY <1>2, <2>1, <2>2, PoolAssumption DEF PoolEnd, Cap
  <2>3. ASSUME NEW k \in 1 .. Len(pool[e.cap]), Whatever(e, pool[e.cap][k])
        PROVE  e.to <= PoolEnd(e.cap)
    <3>1. pool[e.cap][k] \in Block /\ BlockEnd(pool[e.cap][k]) <= PoolEnd(e.cap)
      BY <1>1, <2>1
    <3>2. e.to \in Nat /\ e.to <= BlockEnd(pool[e.cap][k]) /\ BlockEnd(pool[e.cap][k]) \in Nat
      BY <2>3, <3>1, BlockBounds
    <3>3. PoolEnd(e.cap) \in Nat
      BY PoolAssumption DEF PoolEnd
    <3> QED BY <3>1, <3>2, <3>3
  <2> QED BY <2>2, <2>3, BlockKinds
<1>4. ASSUME NEW e \in BlockExtents, NEW f \in BlockExtents, e # f, e.cap = f.cap
      PROVE  e.to <= f.from \/ f.to <= e.from
  <2> DEFINE list == pool[e.cap]
  <2>1. e.cap \in Cap /\ ListOK(e.cap, list) /\ list \in Seq(Block)
    BY BlockKinds DEF PoolOK, ListOK
  <2>2. \A k \in 1 .. Len(list) : list[k] \in Block /\ list[k].at >= HDR
    BY <1>1, <2>1
  <2>3. ASSUME NEW x, NEW y, Sentinel(x), NEW k \in 1 .. Len(list), Whatever(y, list[k])
        PROVE  x.to <= y.from
    <3>1. y.from \in Nat /\ list[k].at <= y.from /\ list[k].at \in Nat
      BY <2>2, <2>3, BlockBounds
    <3> QED BY <1>2, <2>2, <2>3, <3>1 DEF HDR
  <2>4. ASSUME NEW x, NEW y, NEW j \in 1 .. Len(list), NEW k \in 1 .. Len(list), j < k,
               Whatever(x, list[j]), Whatever(y, list[k])
        PROVE  x.to <= y.from
    <3>1. x.to \in Nat /\ x.to <= BlockEnd(list[j]) /\ BlockEnd(list[j]) \in Nat
      BY <2>2, <2>4, BlockBounds
    <3>2. y.from \in Nat /\ list[k].at <= y.from /\ list[k].at \in Nat
      BY <2>2, <2>4, BlockBounds
    <3>3. BlockEnd(list[j]) <= list[k].at
      BY <2>1, <2>4 DEF ListOK
    <3> QED BY <3>1, <3>2, <3>3
  <2>5. CASE Sentinel(e) /\ Sentinel(f)
    BY <1>2, <1>4, <2>5
  <2>6. CASE Sentinel(e) /\ \E k \in 1 .. Len(list) : Whatever(f, list[k])
    BY <2>3, <2>6
  <2>7. CASE Sentinel(f) /\ \E k \in 1 .. Len(list) : Whatever(e, list[k])
    BY <2>3, <2>7
  <2>8. ASSUME NEW j \in 1 .. Len(list), NEW k \in 1 .. Len(list),
               Whatever(e, list[j]), Whatever(f, list[k])
        PROVE  e.to <= f.from \/ f.to <= e.from
    <3>1. CASE j < k
      BY <2>4, <2>8, <3>1
    <3>2. CASE k < j
      BY <2>4, <2>8, <3>2
    <3>3. CASE j = k
      <4>1. list[k] \in Block
        BY <2>2
      <4>2. Header(e, list[k]) /\ Header(f, list[k]) => e = f
        BY <1>4 DEF Header
      <4>3. ~Header(e, list[k]) /\ ~Header(f, list[k]) => e = f
        BY <1>4, <2>8, <3>3 DEF Whatever
      <4>4. /\ IF Header(e, list[k]) THEN e.to = list[k].at + HDR ELSE e.from = list[k].at + HDR
            /\ IF Header(f, list[k]) THEN f.to = list[k].at + HDR ELSE f.from = list[k].at + HDR
            /\ list[k].at \in Nat
        BY <2>8, <3>3, <4>1, BlockBounds
      <4> QED BY <1>4, <4>2, <4>3, <4>4 DEF HDR
    <3>4. j \in Int /\ k \in Int
      BY <2>1
    <3> QED BY <3>1, <3>2, <3>3, <3>4
  <2> QED BY <1>4, <2>5, <2>6, <2>7, <2>8, BlockKinds
<1> QED BY <1>3, <1>4 DEF Separate

\* What the invariants say of the shared memory and of the heap.
LEMMA Disjoint ==
    ASSUME BootBase, Intact => BootInv
    PROVE  MemoryDisjoint /\ BootTypeOK
<1>1. load.cells \cap heap = {} \/ main \notin {"loaded", "running"}
  BY DEF BootBase, Loaded
<1>2. MemoryDisjoint
  <2>1. Separate(BlockExtents)
    BY BlocksSeparate DEF BootBase
  <2>2. Intact => Separate(Extents)
    BY ExtentsInside, ExtentsApart DEF Separate
  <2> QED BY <1>1, <2>1, <2>2 DEF MemoryDisjoint
<1>3. \A c \in Cap : \A k \in DOMAIN pool[c] : pool[c][k].size \in 0..(SizeMod - 1)
  <2> SUFFICES ASSUME NEW c \in Cap, NEW k \in DOMAIN pool[c]
               PROVE  pool[c][k].size \in 0..(SizeMod - 1)
    OBVIOUS
  <2>1. pool[c] \in Seq(Block)
    BY DEF BootBase, PoolOK, ListOK
  <2>2. pool[c][k] \in Block
    BY <2>1
  <2>3. pool[c][k].size \in Nat /\ pool[c][k].size < SizeMod
    BY <2>2 DEF Block
  <2> QED BY <2>3, ShapesAssumption
<1>4. main \in {"sys_info", "pm", "service", "event_main", "event_sub", "app",
                "loading", "loaded", "running", "halt"}
      /\ sub \in {"off", "pm", "service", "event", "app", "panicked"}
  BY DEF BootBase, MainLabels, SubLabels
<1>5. heap \subseteq Cells /\ load.cells \subseteq Cells /\ load.unused \in 0..HpCells
  BY PoolAssumption DEF BootBase, Loaded, Cells
<1> QED BY <1>2, <1>3, <1>4, <1>5 DEF BootTypeOK

\* Every step of either core keeps the invariant, unless it overwrites something.
LEMMA BootStep ==
    ASSUME BootInv, [BootNext]_bootVars, Whole(pool'), ~load'.over
    PROVE  BootInv'
<1>1. CASE SysInfoInit
  BY <1>1, SysInfoStep
<1>2. CASE PmInit
  BY <1>2, PmStep
<1>3. CASE ServiceInit
  BY <1>3, ServiceStep
<1>4. CASE EventInit
  BY <1>4, EventStep
<1>5. CASE EventCreate \/ AppAlloc \/ AppQueue \/ AppRpmsg
  BY <1>5, AppStep
<1>6. CASE LoadBegin \/ LoadSegment \/ LoadEnd \/ StartSubcore
  BY <1>6, LoaderStep
<1>8. CASE SubPmInit \/ SubServiceInit \/ SubEventInit \/ SubQueue \/ SubRpmsg
  BY <1>8, SubStep
<1>9. CASE UNCHANGED bootVars
  <2>1. /\ build' = build /\ main' = main /\ sub' = sub /\ pool' = pool /\ conf' = conf
        /\ handle' = handle /\ load' = load /\ heap' = heap
    BY <1>9 DEF bootVars
  <2>2. BuildOK' /\ BootTypes' /\ World(pool, conf, handle.main, build.sleep)'
    BY <2>1 DEF BootInv, BuildOK, BootTypes
  <2>3. Started'
    BY <2>1 DEF BootInv, Started, Has
  <2>4. Loaded'
    BY <2>1 DEF BootInv, Loaded
  <2>5. Paired'
    BY <2>1, Zenon DEF BootInv, Paired
  <2> QED BY <2>2, <2>3, <2>4, <2>5 DEF BootInv
<1> QED BY <1>1, <1>2, <1>3, <1>4, <1>5, <1>6, <1>8, <1>9 DEF BootNext

\* No block that was cut becomes whole again.
LEMMA WholeBefore ==
    ASSUME NEW p, PoolOK(p), NEW q, Grown(p, q), PoolOK(q), Whole(q)
    PROVE  Whole(p)
<1> SUFFICES ASSUME NEW c \in Cap, NEW k \in DOMAIN p[c] PROVE p[c][k].size = p[c][k].asked
  BY DEF Whole
<1>1. p[c] \in Seq(Block) /\ q[c] \in Seq(Block)
  BY DEF PoolOK, ListOK
<1>2. k \in 1 .. Len(p[c])
  BY <1>1
<1>3. k \in 1 .. Len(q[c]) /\ q[c][k] = p[c][k]
  BY <1>2, BlocksStay
<1>4. k \in DOMAIN q[c]
  BY <1>1, <1>3
<1> QED BY <1>3, <1>4 DEF Whole

\* What holds whatever is overwritten also holds after a step that allocates.
LEMMA PlaceBase ==
    ASSUME BootBase, NEW r, NEW masters, NEW id, NEW next \in Early, next # "sys_info",
           main \in Early, Place(r, masters, id, next), PoolOK(r.pool), Grown(pool, r.pool)
    PROVE  BootBase' /\ (Intact' => Intact)
<1>1. /\ pool' = r.pool /\ build' = build /\ sub' = sub /\ load' = load /\ heap' = heap
      /\ (main' = next \/ main' = "halt")
  BY DEF Place
<1>2. BuildOK' /\ PoolOK(pool)'
  BY <1>1 DEF BootBase, BuildOK
<1>3. Loaded'
  <2>1. heap = {}
    BY DEF BootBase, Loaded
  <2>2. Cells' = Cells
    BY DEF Cells
  <2> QED BY <1>1, <2>1, <2>2 DEF BootBase, Loaded, Early
<1>4. (main \in MainLabels)' /\ (sub \in SubLabels \cup {"panicked"})' /\ main' # "sys_info"
  BY <1>1 DEF BootBase, MainLabels, Early
<1>5. Intact' => Intact
  BY <1>1, WholeBefore DEF BootBase, Intact
<1> QED BY <1>2, <1>3, <1>4, <1>5 DEF BootBase

\* The steps of the main core before it loads the subcore.
LEMMA EarlyBase ==
    ASSUME BootBase, \/ PmInit \/ ServiceInit \/ EventInit
                     \/ EventCreate \/ AppAlloc \/ AppQueue \/ AppRpmsg
    PROVE  BootBase' /\ (Intact' => Intact)
<1>1. PoolOK(pool) /\ BuildOK
  BY DEF BootBase
<1>2. main \in Early
  BY Zenon DEF PmInit, ServiceInit, EventInit, EventCreate, AppAlloc, AppQueue, AppRpmsg, Early
<1>3. ASSUME NEW id \in BlockId, NEW n \in Nat, NEW c \in Cap, NEW next \in Early,
             next # "sys_info", Place(Plain(Alloc(pool, id, n, c)), <<>>, id, next)
      PROVE  BootBase' /\ (Intact' => Intact)
  <2> DEFINE a == Alloc(pool, id, n, c)
             r == Plain(a)
  <2>1. Allocated(pool, id, n, c, a)
    BY <1>1, AllocFacts
  <2>2. Place(r, <<>>, id, next)
    BY <1>3
  <2> HIDE DEF a
  <2>3. r.pool = a.pool
    BY Zenon DEF Plain
  <2>4. PoolOK(r.pool) /\ Grown(pool, r.pool)
    BY <2>1, <2>3 DEF Allocated, Grown
  <2> HIDE DEF r
  <2> QED BY <1>2, <1>3, <2>2, <2>4, PlaceBase
<1>4. ASSUME NEW id \in QueueId \cup {"SYSTEM"}, NEW s \in Shapes \cup {<<16, 128>>},
             NEW m \in BOOLEAN, NEW next \in Early, next # "sys_info",
             Place(QueueMainInit(pool, id, s, m), <<m>>, id, next)
      PROVE  BootBase' /\ (Intact' => Intact)
  <2> DEFINE r == QueueMainInit(pool, id, s, m)
  <2>1. QueueMade(pool, id, m, r)
    BY <1>1, QueueFacts
  <2>2. Place(r, <<m>>, id, next)
    BY <1>4
  <2> HIDE DEF r
  <2>3. PoolOK(r.pool) /\ Grown(pool, r.pool)
    BY <2>1 DEF QueueMade
  <2> QED BY <1>2, <1>4, <2>2, <2>3, PlaceBase, Zenon
<1>5. ASSUME NEW id \in RpmsgId, NEW s \in Shapes \cup {<<16, 128>>},
             Place(RpmsgMainInit(pool, id, s), <<TRUE, FALSE>>, id, "app")
      PROVE  BootBase' /\ (Intact' => Intact)
  <2> DEFINE r == RpmsgMainInit(pool, id, s)
  <2>1. RpmsgMade(pool, id, r)
    BY <1>1, RpmsgFacts
  <2>2. Place(r, <<TRUE, FALSE>>, id, "app")
    BY <1>5
  <2> HIDE DEF r
  <2>3. PoolOK(r.pool) /\ Grown(pool, r.pool)
    BY <2>1 DEF RpmsgMade
  <2>4. "app" \in Early /\ "app" # "sys_info"
    BY DEF Early
  <2> QED BY <1>2, <1>5, <2>2, <2>3, <2>4, PlaceBase, Zenon
<1>6. /\ "service" \in Early /\ "service" # "sys_info" /\ "event_main" \in Early
      /\ "event_main" # "sys_info" /\ "event_sub" \in Early /\ "event_sub" # "sys_info"
      /\ "app" \in Early /\ "app" # "sys_info"
  BY DEF Early
<1>7. /\ "HP" \in Cap /\ "RTC" \in Cap /\ 4 \in Nat /\ RawSize \in Nat
      /\ "PM" \in BlockId /\ "EVENT_MAIN" \in BlockId /\ "EVENT_SUB" \in BlockId
      /\ EventId \subseteq BlockId /\ RawId \subseteq BlockId
  BY PoolAssumption DEF Cap, BlockId
<1>8. CASE PmInit
  <2>1. CASE build.sleep
    <3>1. Place(Plain(Alloc(pool, "PM", 4, "RTC")), <<>>, "PM", "service")
      BY <1>8, <2>1 DEF PmInit
    <3> QED BY <1>3, <1>6, <1>7, <3>1
  <2>2. CASE ~build.sleep
    <3>1. /\ main = "pm" /\ main' = "service" /\ build' = build /\ sub' = sub /\ pool' = pool
          /\ load' = load /\ heap' = heap
      BY <1>8, <2>2 DEF PmInit
    <3>2. Loaded'
      BY <3>1 DEF BootBase, Loaded, Early, Cells
    <3> QED BY <3>1, <3>2 DEF BootBase, BuildOK, MainLabels, Intact
  <2> QED BY <2>1, <2>2
<1>9. CASE ServiceInit
  <2>1. Place(QueueMainInit(pool, "SYSTEM", <<16, 128>>, FALSE), <<FALSE>>, "SYSTEM", "event_main")
    BY <1>9, Zenon DEF ServiceInit
  <2>2. "SYSTEM" \in QueueId \cup {"SYSTEM"} /\ <<16, 128>> \in Shapes \cup {<<16, 128>>}
        /\ FALSE \in BOOLEAN
    OBVIOUS
  <2> QED BY <1>4, <1>6, <2>1, <2>2, Zenon
<1>10. CASE EventInit
  <2>1. \/ Place(Plain(Alloc(pool, "EVENT_MAIN", 4, "HP")), <<>>, "EVENT_MAIN", "event_sub")
        \/ Place(Plain(Alloc(pool, "EVENT_SUB", 4, "HP")), <<>>, "EVENT_SUB", "app")
    BY <1>10 DEF EventInit
  <2> QED BY <1>3, <1>6, <1>7, <2>1
<1>11. CASE EventCreate
  <2>1. PICK id \in EventId : Place(Plain(Alloc(pool, id, 4, "HP")), <<>>, id, "app")
    BY <1>11 DEF EventCreate
  <2> QED BY <1>3, <1>6, <1>7, <2>1
<1>12. CASE AppAlloc
  <2>1. PICK id \in RawId, c \in Cap : Place(Plain(Alloc(pool, id, RawSize, c)), <<>>, id, "app")
    BY <1>12 DEF AppAlloc
  <2> QED BY <1>3, <1>6, <1>7, <2>1
<1>13. CASE AppQueue
  <2>1. PICK id \in QueueId, s \in Shapes, m \in BOOLEAN :
            Place(QueueMainInit(pool, id, s, m), <<m>>, id, "app")
    BY <1>13 DEF AppQueue
  <2>2. id \in QueueId \cup {"SYSTEM"} /\ s \in Shapes \cup {<<16, 128>>}
    OBVIOUS
  <2> QED BY <1>4, <1>6, <2>1, <2>2, Zenon
<1>14. CASE AppRpmsg
  <2>1. PICK id \in RpmsgId, s \in Shapes :
            Place(RpmsgMainInit(pool, id, s), <<TRUE, FALSE>>, id, "app")
    BY <1>14 DEF AppRpmsg
  <2>2. s \in Shapes \cup {<<16, 128>>}
    OBVIOUS
  <2> QED BY <1>5, <2>1, <2>2, Zenon
<1> QED BY <1>8, <1>9, <1>10, <1>11, <1>12, <1>13, <1>14

\* The loader leaves a well-formed list, the empty one if the image reached it,
\* and never forgets that it did.
LEMMA LoaderBase ==
    ASSUME BootBase, LoadBegin \/ LoadSegment \/ LoadEnd \/ StartSubcore
    PROVE  BootBase' /\ (Intact' => Intact)
<1>1. Loaded'
  BY LoadedStep DEF BootBase
<1>2. /\ build' = build /\ main' \in {"loading", "loaded", "running", "halt"}
      /\ sub' \in {"off", "pm", sub}
  BY Zenon DEF LoadBegin, LoadSegment, LoadEnd, StartSubcore, StopSubcore
<1>3. BuildOK' /\ main' \in MainLabels /\ sub' \in SubLabels \cup {"panicked"}
      /\ main' # "sys_info"
  BY <1>2 DEF BootBase, BuildOK, MainLabels, SubLabels
<1>4. load = [image |-> load.image, seg |-> load.seg, ok |-> load.ok,
              unused |-> load.unused, cells |-> load.cells, over |-> load.over]
  BY DEF BootBase, Loaded
<1>5. PoolOK(pool') /\ (Whole(pool') /\ ~load'.over => Whole(pool) /\ ~load.over)
  <2>1. CASE LoadBegin
    <3>1. PICK i \in Images : load' = [load EXCEPT !.image = i, !.seg = 1, !.ok = i.entry,
                                                  !.unused = 0, !.cells = {}]
      BY <2>1, Zenon DEF LoadBegin
    <3>2. load'.over = load.over
      BY <1>4, <3>1
    <3>3. pool' = pool
      BY <2>1, Zenon DEF LoadBegin
    <3> QED BY <3>2, <3>3 DEF BootBase
  <2>2. CASE LoadSegment
    <3> DEFINE s == load.image.segs[load.seg]
               new == IF s.mem = "hp" THEN s.from..(s.to - 1) ELSE {}
               top == IF s.mem = "hp" /\ s.to > load.unused THEN s.to ELSE load.unused
               ov == s.mem = "rtc" /\ s.to > RtcOwn
    <3>1. CASE ValidAddr(s.mem, s.from) /\ ValidAddr(s.mem, s.to)
      <4>1. /\ load' = [load EXCEPT !.seg = @ + 1, !.cells = @ \cup new, !.over = @ \/ ov,
                                    !.unused = top]
            /\ pool' = IF ov THEN [pool EXCEPT !["RTC"] = <<>>] ELSE pool
        BY <2>2, <3>1, Zenon DEF LoadSegment
      <4> HIDE DEF new, top, ov
      <4>2. load' = [image |-> load.image, seg |-> load.seg + 1, ok |-> load.ok,
                     unused |-> top, cells |-> load.cells \cup new, over |-> load.over \/ ov]
        BY <1>4, <4>1, Zenon
      <4>3. load'.over = (load.over \/ ov)
        BY <4>2, Zenon
      <4>4. CASE ov
        <5>1. pool' = [pool EXCEPT !["RTC"] = <<>>]
          BY <4>1, <4>4
        <5>2. pool = [c \in Cap |-> pool[c]] /\ \A c \in Cap : ListOK(c, pool[c])
          BY DEF BootBase, PoolOK
        <5>3. <<>> \in Seq(Block) /\ Len(<<>>) = 0
          OBVIOUS
        <5>4. ListOK("RTC", <<>>)
          BY <5>3 DEF ListOK
        <5>5. pool' = [c \in Cap |-> IF c = "RTC" THEN <<>> ELSE pool[c]]
          BY <5>1, <5>2, Zenon
        <5>6. PoolOK(pool')
          BY <5>2, <5>4, <5>5, Zenon DEF PoolOK
        <5> QED BY <4>3, <4>4, <5>6, Zenon
      <4>5. CASE ~ov
        BY <4>1, <4>3, <4>5, Zenon DEF BootBase
      <4> QED BY <4>4, <4>5
    <3>2. CASE ~(ValidAddr(s.mem, s.from) /\ ValidAddr(s.mem, s.to))
      <4>1. /\ load' = IF s.mem = "drom" /\ s.magic THEN [load EXCEPT !.seg = @ + 1]
                       ELSE [load EXCEPT !.ok = FALSE]
            /\ pool' = pool
        BY <2>2, <3>2 DEF LoadSegment
      <4> HIDE DEF s
      <4>2. load'.over = load.over
        BY <1>4, <4>1, Zenon
      <4> QED BY <4>1, <4>2 DEF BootBase
    <3> QED BY <3>1, <3>2
  <2>3. CASE LoadEnd \/ StartSubcore
    <3>1. pool' = pool /\ load' = load
      BY <2>3 DEF LoadEnd, StartSubcore
    <3> QED BY <3>1 DEF BootBase
  <2> QED BY <2>1, <2>2, <2>3
<1> QED BY <1>1, <1>3, <1>5 DEF BootBase, Intact

\* Every step keeps what holds whatever is overwritten, and undoes no overwriting.
LEMMA BaseStep ==
    ASSUME BootBase, [BootNext]_bootVars
    PROVE  BootBase' /\ (Intact' => Intact)
<1>1. CASE SysInfoInit
  <2>1. /\ pool' = pool /\ build' = build /\ sub' = sub /\ load' = load /\ heap' = heap
        /\ main = "sys_info" /\ main' = "pm"
    BY <1>1 DEF BootBase, SysInfoInit
  <2>2. Loaded'
    BY <2>1 DEF BootBase, Loaded, Early, Cells
  <2> QED BY <2>1, <2>2 DEF BootBase, BuildOK, MainLabels, Intact
<1>2. CASE PmInit \/ ServiceInit \/ EventInit \/ EventCreate \/ AppAlloc \/ AppQueue \/ AppRpmsg
  BY <1>2, EarlyBase
<1>3. CASE LoadBegin \/ LoadSegment \/ LoadEnd \/ StartSubcore
  BY <1>3, LoaderBase
<1>4. CASE SubPmInit \/ SubServiceInit \/ SubEventInit \/ SubQueue \/ SubRpmsg \/ UNCHANGED bootVars
  <2>1. /\ pool' = pool /\ build' = build /\ load' = load /\ heap' = heap /\ main' = main
        /\ sub' \in {"service", "event", "app", "panicked", sub}
    BY <1>4, Zenon DEF SubPmInit, SubServiceInit, SubEventInit, SubQueue, SubRpmsg, SubGoes, bootVars
  <2>2. Loaded'
    BY <2>1 DEF BootBase, Loaded
  <2> QED BY <2>1, <2>2 DEF BootBase, BuildOK, SubLabels, Intact
<1> QED BY <1>1, <1>2, <1>3, <1>4 DEF BootNext

\* The inductive invariant of the start-up: the blocks of each pool follow each
\* other, and, as long as nothing is overwritten, every ring lies in blocks made
\* for it, every id leads to the rings of its handles, and the subcore runs only
\* once all of them are there.
THEOREM BootInvariant == BootSpec => [](BootBase /\ (Intact => BootInv))
<1>1. BootInit => BootBase /\ (Intact => BootInv)
  BY BootStart
<1>2. BootBase /\ (Intact => BootInv) /\ [BootNext]_bootVars
        => (BootBase /\ (Intact => BootInv))'
  <2> SUFFICES ASSUME BootBase, Intact => BootInv, [BootNext]_bootVars
               PROVE  BootBase' /\ (Intact' => BootInv')
    OBVIOUS
  <2>1. BootBase' /\ (Intact' => Intact)
    BY BaseStep
  <2>2. Intact' => Whole(pool') /\ ~load'.over
    BY DEF Intact
  <2> QED BY <2>1, <2>2, BootStep
<1> QED BY <1>1, <1>2, PTL DEF BootSpec

\* For pools of any size, queues and devices of any number and shape, and any
\* image: the blocks of a pool never overlap and end inside it, and the heap gets
\* nothing of the image (esp_amp_sys_info_alloc, the loader).  If moreover no
\* allocation was cut to 16 bits and no image reached into the RTC pool, nothing
\* that the cores write in the pools overlaps: configurations, descriptors, data,
\* headers and other blocks (queue_main_init, rpmsg_main_init).
THEOREM MemoryAlwaysDisjoint == BootSpec => [](MemoryDisjoint /\ BootTypeOK)
<1>1. BootBase /\ (Intact => BootInv) => MemoryDisjoint /\ BootTypeOK
  BY Disjoint
<1> QED BY <1>1, BootInvariant, PTL

\* As long as nothing is overwritten, a subcore that was started finds every
\* block it asks for, and attaches to the rings of the main core with the opposite
\* role (esp_amp_queue_sub_init, esp_amp_rpmsg_sub_init_by_id).
THEOREM RingsAlwaysPaired == BootSpec => []PairedRings
<1>1. BootBase /\ (Intact => BootInv) => PairedRings
  BY DEF BootInv, BootTypes, SubLabels, Paired, PairedRings
<1> QED BY <1>1, BootInvariant, PTL
=============================================================================
