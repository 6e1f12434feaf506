-------------------------------- MODULE Boot --------------------------------
(***************************************************************************)
(* Start-up of the two cores and the memory they share: the sys_info pools  *)
(* (src/esp_amp_sys_info.c), the rings that the queue, RPMsg, service, event*)
(* and power management layers carve out of them, the loader that fills     *)
(* the subcore's memory and gives the rest to the heap                      *)
(* (system/esp_amp_loader.c), and the subcore's own initialisation, which   *)
(* finds everything again by id.                                            *)
(*                                                                          *)
(* Pointers into a pool are byte offsets from its start, and the sizes of   *)
(* the structures are those of the 32-bit build.  The subcore's HP memory   *)
(* is divided into HpCells cells, its RTC memory into RtcCells, of which    *)
(* those from RtcOwn on are the RTC pool.  Every application of the         *)
(* repository allocates before it loads and starts the subcore, loads it    *)
(* once, and asserts each result; so does the one modelled here.            *)
(***************************************************************************)
EXTENDS Naturals, Sequences, FiniteSets, Functions

CONSTANTS HpPool, RtcPool,      \* sizes of the pools, in bytes
          SizeMod,              \* 2^16, sizes are passed as uint16_t
          QueueId, RpmsgId, EventId, RawId,   \* ids used by the application
          Shapes,               \* <<queue_len, queue_item_size>> it asks for
          RawSize,              \* bytes of its own blocks
          HpCells, RtcCells,    \* the subcore's memory, in cells
          RtcOwn,               \* RTC cells in front of the pool
          Images,               \* what esp_amp_load_sub may be given
          RtcOver,              \* CONFIG_ULP_COPROC_RESERVE_MEM % 8
          NULL

VARIABLES build,                \* configuration: LP core? light sleep? clz(0)
          main, sub,            \* next step of each core's start-up
          pool,                 \* per pool, the linked blocks in order
          conf,                 \* the queue_conf structures in shared memory
          handle,               \* the esp_amp_queue_t of each core
          load,                 \* the loader's image, position and results
          heap,                 \* cells given to the main core's heap
          boot_addr             \* hp_subcore_boot_addr is set

bootVars == <<build, main, sub, pool, conf, handle, load, heap, boot_addr>>

Cap == {"HP", "RTC"}
HDR == 8                        \* sizeof(sys_info_header_t)
CONF == 12                      \* sizeof(esp_amp_queue_conf_t)
DESC == 8                       \* sizeof(esp_amp_queue_desc_t)

\* The loader clears CONFIG_ULP_COPROC_RESERVE_MEM - pool bytes, but the pool
\* starts ALIGN_DOWN(.., 8) - pool bytes in: the first RtcOver bytes of the
\* sentinel are cleared too.  Its id and size may be; its next pointer not.
ASSUME RtcReserveAssumption == RtcOver \in 0..4

\* queue_len and queue_item_size are uint16_t.  No shape is refused for the
\* size of its ring.
ASSUME ShapesAssumption ==
    /\ SizeMod \in Nat \ {0} /\ SizeMod <= 65536
    /\ Shapes \subseteq (0 .. SizeMod - 1) \X (0 .. SizeMod - 1)

\* Each pool holds at least its sentinel.
ASSUME PoolAssumption ==
    /\ HpPool \in Nat /\ RtcPool \in Nat /\ HpPool >= HDR /\ RtcPool >= HDR
    /\ HpCells \in Nat /\ RtcCells \in Nat /\ RtcOwn \in 0 .. RtcCells /\ RawSize \in Nat
    /\ NULL \notin [cap : Cap, off : Nat]

\* An application uses an id for a queue or for an RPMsg device, and leaves
\* the service's own alone (SYS_INFO_RESERVED_ID_SYSTEM).
ASSUME IdAssumption == QueueId \cap RpmsgId = {} /\ "SYSTEM" \notin QueueId \cup RpmsgId

-----------------------------------------------------------------------------
(* sys_info *)

\* Whole words of a byte size; the mutant forgets the last partial word.
GetSizeWordFloor(size) == size \div 4
GetSizeWord(size) == (size + 3) \div 4

NextStart(list) ==
    IF list = <<>> THEN HDR ELSE list[Len(list)].at + HDR + 4 * GetSizeWord(list[Len(list)].size)

PoolEnd(cap) == IF cap = "HP" THEN HpPool ELSE RtcPool

\* The result of esp_amp_sys_info_alloc on pools p: a pointer or NULL, and the
\* pools after it.  The callers compute n as a size_t, and the parameter is a
\* uint16_t: nothing refuses 64 KiB or more, of which the remainder is
\* allocated.  "asked" keeps n, which the code does not.
Alloc(p, id, n, cap) ==
    LET size == n % SizeMod
        at == NextStart(p[cap])
    IN  IF \/ cap = "RTC" /\ ~build.lp
           \/ \E k \in DOMAIN p[cap] : p[cap][k].id = id
           \/ at + HDR + 4 * GetSizeWord(size) > PoolEnd(cap)
        THEN [ptr |-> NULL, pool |-> p]
        ELSE [ptr |-> [cap |-> cap, off |-> at + HDR],
              pool |-> [p EXCEPT ![cap] = Append(@, [id |-> id, size |-> size, asked |-> n, at |-> at])]]

\* esp_amp_sys_info_get: the first block with the id.
Get(id, cap) ==
    LET found == {k \in DOMAIN pool[cap] : pool[cap][k].id = id}
    IN  IF found = {} \/ (cap = "RTC" /\ ~build.lp) THEN NULL
        ELSE LET k == CHOOSE k \in found : \A j \in found : k <= j
             IN  [cap |-> cap, off |-> pool[cap][k].at + HDR]

-----------------------------------------------------------------------------
(* Rings *)

\* 1 << b, and 32 - clz(n) for n > 0; clz(0) is undefined, and build.one is
\* what the build makes of it: 1 with clz(0) = 32, 2 with clz(0) = 31.
PowerOfTwo[b \in 0..15] == IF b = 0 THEN 1 ELSE 2 * PowerOfTwo[b - 1]
BitLength(n) == CHOOSE b \in 1..15 : n < PowerOfTwo[b] /\ PowerOfTwo[b - 1] <= n
GetPowerLen(len) ==
    IF len = 0 \/ len > SizeMod \div 2 THEN 0
    ELSE IF len = 1 THEN build.one ELSE PowerOfTwo[BitLength(len - 1)]
GetAlignedSize(size) == (4 * GetSizeWord(size)) % SizeMod

Plus(ptr, n) == [ptr EXCEPT !.off = @ + n]
Ring(c, d, b, len, item) == [conf |-> c, desc |-> d, data |-> b, len |-> len, item |-> item]
Failed(p) == [ok |-> FALSE, pool |-> p, rings |-> <<>>]

\* esp_amp_queue_main_init: one HP block, or with light sleep and the main
\* core as master the descriptors in RTC memory, where the subcore polls them.
\* When the RTC block fails the HP block stays allocated.
QueueMainInit(p, id, shape, master) ==
    LET len == GetPowerLen(shape[1])
        item == GetAlignedSize(shape[2])
        split == build.sleep /\ master
        descs == IF split THEN 0 ELSE DESC * len
        hp == Alloc(p, id, CONF + descs + item * len, "HP")
        rtc == Alloc(hp.pool, id, DESC * len, "RTC")
    IN  IF len = 0 \/ item = 0 THEN Failed(p)
        ELSE IF hp.ptr = NULL THEN Failed(p)
        ELSE IF split /\ rtc.ptr = NULL THEN Failed(hp.pool)
        ELSE [ok |-> TRUE,
              pool |-> IF split THEN rtc.pool ELSE hp.pool,
              rings |-> <<Ring(hp.ptr, IF split THEN rtc.ptr ELSE Plus(hp.ptr, CONF),
                               Plus(hp.ptr, CONF + descs), len, item)>>]

\* esp_amp_rpmsg_main_init_by_id: both configurations, then the descriptors
\* (with light sleep those of the main core's tx ring are in RTC memory), then
\* the data.
RpmsgMainInit(p, id, shape) ==
    LET len == GetPowerLen(shape[1])
        item == GetAlignedSize(shape[2])
        descs == (IF build.sleep THEN 1 ELSE 2) * DESC * len
        hp == Alloc(p, id, 2 * (CONF + item * len) + descs, "HP")
        rtc == Alloc(hp.pool, id, DESC * len, "RTC")
        rx == Plus(hp.ptr, 2 * CONF + descs - DESC * len)
        tx == IF build.sleep THEN rtc.ptr ELSE Plus(hp.ptr, 2 * CONF)
        data == <<Plus(hp.ptr, 2 * CONF + descs), Plus(hp.ptr, 2 * CONF + descs + item * len)>>
    IN  IF len = 0 \/ item = 0 THEN Failed(p)
        ELSE IF hp.ptr = NULL THEN Failed(p)
        ELSE IF build.sleep /\ rtc.ptr = NULL THEN Failed(hp.pool)
        ELSE [ok |-> TRUE,
              pool |-> IF build.sleep THEN rtc.pool ELSE hp.pool,
              rings |-> <<Ring(hp.ptr, tx, data[1], len, item),
                          Ring(Plus(hp.ptr, CONF), rx, data[2], len, item)>>]

\* esp_amp_queue_create, from the configuration in shared memory.
Handle(id, ring, master) == [id |-> id, ring |-> ring, master |-> master]
RingAt(ptr) == CHOOSE r \in conf : r.conf = ptr

\* A step of the main core that allocates: the rings' configurations and
\* descriptors are written (esp_amp_queue_init_buffer) and its own structures
\* created; the application asserts the result.
Place(r, masters, id, next) ==
    /\ pool' = r.pool
    /\ conf' = conf \cup Range(r.rings)
    /\ handle' = [handle EXCEPT !.main = @ \cup
           {Handle(id, r.rings[k], masters[k]) : k \in DOMAIN r.rings}]
    /\ main' = IF r.ok THEN next ELSE "halt"
    /\ UNCHANGED <<build, sub, load, heap, boot_addr>>

Plain(a) == [ok |-> a.ptr # NULL, pool |-> a.pool, rings |-> <<>>]

-----------------------------------------------------------------------------
(* esp_amp_init on the main core, in its order *)

BootInit ==
    /\ build \in [lp : BOOLEAN, sleep : BOOLEAN, one : {1, 2}]
    /\ build.sleep => build.lp
    /\ main = "sys_info" /\ sub = "off"
    /\ pool = [c \in Cap |-> <<>>]
    /\ conf = {}
    /\ handle = [main |-> {}, sub |-> {}]
    /\ load = [image |-> NULL, seg |-> 0, ok |-> FALSE, unused |-> 0, cells |-> {}, over |-> FALSE]
    /\ heap = {} /\ boot_addr = FALSE

\* esp_amp_sys_info_init: the sentinels end both lists.
SysInfoInit ==
    /\ main = "sys_info"
    /\ pool' = [c \in Cap |-> <<>>]
    /\ main' = "pm"
    /\ UNCHANGED <<build, sub, conf, handle, load, heap, boot_addr>>

\* esp_amp_system_init: power management if the build has light sleep, then
\* the service queue, whose master is the subcore, then the panic handler.
PmInit ==
    /\ main = "pm"
    /\ IF build.sleep THEN Place(Plain(Alloc(pool, "PM", 4, "RTC")), <<>>, "PM", "service")
       ELSE /\ main' = "service"
            /\ UNCHANGED <<build, sub, pool, conf, handle, load, heap, boot_addr>>

ServiceInit ==
    /\ main = "service"
    /\ Place(QueueMainInit(pool, "SYSTEM", <<16, 128>>, FALSE), <<FALSE>>, "SYSTEM", "event_main")

\* esp_amp_event_init allocates the two default words by esp_amp_event_create.
EventInit ==
    \/ /\ main = "event_main"
       /\ Place(Plain(Alloc(pool, "EVENT_MAIN", 4, "HP")), <<>>, "EVENT_MAIN", "event_sub")
    \/ /\ main = "event_sub"
       /\ Place(Plain(Alloc(pool, "EVENT_SUB", 4, "HP")), <<>>, "EVENT_SUB", "app")

-----------------------------------------------------------------------------
(* The main core's application *)

\* esp_amp_event_create, esp_amp_sys_info_alloc, esp_amp_queue_main_init and
\* esp_amp_rpmsg_main_init.
EventCreate ==
    /\ main = "app"
    /\ \E id \in EventId : Place(Plain(Alloc(pool, id, 4, "HP")), <<>>, id, "app")

AppAlloc ==
    /\ main = "app"
    /\ \E id \in RawId, c \in Cap : Place(Plain(Alloc(pool, id, RawSize, c)), <<>>, id, "app")

AppQueue ==
    /\ main = "app"
    /\ \E id \in QueueId, s \in Shapes, m \in BOOLEAN :
           Place(QueueMainInit(pool, id, s, m), <<m>>, id, "app")

AppRpmsg ==
    /\ main = "app"
    /\ \E id \in RpmsgId, s \in Shapes : Place(RpmsgMainInit(pool, id, s), <<TRUE, FALSE>>, id, "app")

-----------------------------------------------------------------------------
(* The loader and the start of the subcore *)

Cells == 0..(HpCells - 1)
ValidAddr(mem, a) ==
    \/ mem = "hp" /\ a \in 0..HpCells
    \/ mem = "rtc" /\ build.lp /\ a \in 0..RtcCells

\* esp_amp_stop_subcore, a no-op on an HP core
StopSubcore == sub' = IF build.lp THEN "off" ELSE sub

\* esp_amp_load_sub up to the entry check: the subcore is stopped and all of
\* its HP memory cleared.
LoadBegin ==
    /\ main = "app"
    /\ \E i \in Images :
           load' = [load EXCEPT !.image = i, !.seg = 1, !.ok = i.entry, !.unused = 0, !.cells = {}]
    /\ StopSubcore
    /\ main' = "loading"
    /\ UNCHANGED <<build, pool, conf, handle, heap, boot_addr>>

\* One segment: copied if both its ends are the subcore's, skipped if it is
\* the application descriptor, else the image is refused.  The RTC memory that
\* is_valid_subcore_app_rtcram_addr accepts includes the pool: an image that
\* reaches it overwrites the list, and what is allocated there is not found.
LoadSegment ==
    /\ main = "loading" /\ load.ok /\ load.seg <= Len(load.image.segs)
    /\ LET s == load.image.segs[load.seg]
           hp == IF s.mem = "hp" THEN s.from..(s.to - 1) ELSE {}
           over == s.mem = "rtc" /\ s.to > RtcOwn
       IN  IF ValidAddr(s.mem, s.from) /\ ValidAddr(s.mem, s.to)
           THEN /\ load' = [load EXCEPT !.seg = @ + 1, !.cells = @ \cup hp, !.over = @ \/ over,
                    !.unused = IF s.mem = "hp" /\ s.to > @ THEN s.to ELSE @]
                /\ pool' = IF over THEN [pool EXCEPT !["RTC"] = <<>>] ELSE pool
           ELSE /\ load' = IF s.mem = "drom" /\ s.magic THEN [load EXCEPT !.seg = @ + 1]
                           ELSE [load EXCEPT !.ok = FALSE]
                /\ UNCHANGED pool
    /\ UNCHANGED <<build, main, sub, conf, handle, heap, boot_addr>>

\* The unused cells, all of them after a failure, go to the heap.  The entry
\* address is set in any case; the application checks the result.
LoadEnd ==
    /\ main = "loading" /\ (load.ok => load.seg > Len(load.image.segs))
    /\ heap' = heap \cup IF load.ok THEN load.unused..(HpCells - 1) ELSE Cells
    /\ boot_addr' = ~build.lp
    /\ main' = IF load.ok THEN "loaded" ELSE "halt"
    /\ UNCHANGED <<build, sub, pool, conf, handle, load>>

\* esp_amp_start_subcore: an HP core needs an entry address; ulp_lp_core_run
\* may fail.
SubcoreStarts == IF build.lp THEN BOOLEAN ELSE {boot_addr}

StartSubcore ==
    /\ main = "loaded"
    /\ \E started \in SubcoreStarts :
           /\ main' = IF started THEN "running" ELSE "halt"
           /\ sub' = IF started THEN "pm" ELSE sub
    /\ UNCHANGED <<build, pool, conf, handle, load, heap, boot_addr>>

-----------------------------------------------------------------------------
(* esp_amp_init and the application on the subcore *)

SubGoes(found, handles, next) ==
    /\ sub' = IF found THEN next ELSE "panicked"
    /\ handle' = [handle EXCEPT !.sub = @ \cup IF found THEN handles ELSE {}]
    /\ UNCHANGED <<build, main, pool, conf, load, heap, boot_addr>>

SubPmInit ==
    /\ sub = "pm"
    /\ SubGoes(build.sleep => Get("PM", "RTC") # NULL, {}, "service")

\* esp_amp_queue_sub_init.
QueueSubInit(id, master) == {Handle(id, RingAt(Get(id, "HP")), master)}

SubServiceInit ==
    /\ sub = "service"
    /\ SubGoes(Get("SYSTEM", "HP") # NULL, QueueSubInit("SYSTEM", TRUE), "event")

SubEventInit ==
    /\ sub = "event"
    /\ SubGoes(Get("EVENT_MAIN", "HP") # NULL /\ Get("EVENT_SUB", "HP") # NULL, {}, "app")

\* esp_amp_rpmsg_sub_init_by_id: the subcore's tx ring is the second one.  The
\* mutant keeps the main core's order.
SubRingsSame(ptr) == <<RingAt(ptr), RingAt(Plus(ptr, CONF))>>
SubRings(ptr) == <<RingAt(Plus(ptr, CONF)), RingAt(ptr)>>

RpmsgSubInit(id) ==
    LET rings == SubRings(Get(id, "HP"))
    IN  {Handle(id, rings[1], TRUE), Handle(id, rings[2], FALSE)}

\* The two applications agree on ids and on who sends.
SubQueue ==
    /\ sub = "app"
    /\ \E h \in handle.main :
           /\ h.id \in QueueId
           /\ SubGoes(Get(h.id, "HP") # NULL, QueueSubInit(h.id, ~h.master), "app")

SubRpmsg ==
    /\ sub = "app"
    /\ \E h \in handle.main :
           h.id \in RpmsgId /\ SubGoes(Get(h.id, "HP") # NULL, RpmsgSubInit(h.id), "app")

BootNext ==
    \/ SysInfoInit \/ PmInit \/ ServiceInit \/ EventInit
    \/ EventCreate \/ AppAlloc \/ AppQueue \/ AppRpmsg
    \/ LoadBegin \/ LoadSegment \/ LoadEnd \/ StartSubcore
    \/ SubPmInit \/ SubServiceInit \/ SubEventInit \/ SubQueue \/ SubRpmsg

BootSpec == BootInit /\ [][BootNext]_bootVars

-----------------------------------------------------------------------------
BootTypeOK ==
    /\ main \in {"sys_info", "pm", "service", "event_main", "event_sub", "app",
                 "loading", "loaded", "running", "halt"}
    /\ sub \in {"off", "pm", "service", "event", "app", "panicked"}
    /\ \A c \in Cap : \A k \in DOMAIN pool[c] : pool[c][k].size \in 0..(SizeMod - 1)
    /\ heap \subseteq Cells /\ load.cells \subseteq Cells /\ load.unused \in 0..HpCells

\* Everything either core writes in the pools: the sentinels and the headers,
\* the parts of every ring, and the blocks that hold no ring.
Extent(owner, cap, from, len) == [owner |-> owner, cap |-> cap, from |-> from, to |-> from + len]
RingParts(r) == {Extent(<<"conf", r.conf.off>>, r.conf.cap, r.conf.off, CONF),
                 Extent(<<"desc", r.conf.off>>, r.desc.cap, r.desc.off, DESC * r.len),
                 Extent(<<"data", r.conf.off>>, r.data.cap, r.data.off, r.item * r.len)}
BlockParts(c, b) ==
    {Extent(<<"header", b.at>>, c, b.at, HDR)} \cup
    {Extent(<<"block", b.at>>, c, b.at + HDR, b.size) :
        x \in {b.id} \ (QueueId \cup RpmsgId \cup {"SYSTEM"})}
Extents ==
    {Extent(<<"header", 0>>, c, 0, HDR) : c \in Cap}
    \cup (UNION {RingParts(r) : r \in conf})
    \cup (UNION {UNION {BlockParts(c, b) : b \in Range(pool[c])} : c \in Cap})

\* The blocks as sys_info hands them out, whatever is in them.
BlockExtents ==
    {Extent(<<"header", 0>>, c, 0, HDR) : c \in Cap}
    \cup (UNION {UNION {{Extent(<<"header", b.at>>, c, b.at, HDR),
                         Extent(<<"block", b.at>>, c, b.at + HDR, b.size)} :
                           b \in Range(pool[c])} : c \in Cap})
Separate(E) ==
    /\ \A e \in E : e.to <= PoolEnd(e.cap)
    /\ \A e, f \in E : (e # f /\ e.cap = f.cap) => (e.to <= f.from \/ f.to <= e.from)

\* What the two checks that the code does not make would ensure: no block is
\* smaller than what was asked for, and the image leaves the RTC pool alone.
\* Without them a ring or the image lies over other blocks, and the model does
\* not follow what is overwritten.
Whole(p) == \A c \in Cap : \A k \in DOMAIN p[c] : p[c][k].size = p[c][k].asked
Intact == Whole(pool) /\ ~load.over

\* The blocks of a pool never overlap and end inside it, whatever the order
\* and the sizes of the allocations.  Nor do configurations, descriptors and
\* data of all rings, other blocks and headers, as long as no allocation was
\* cut to 16 bits and the image kept out of the RTC pool.  What the loader
\* leaves to the heap holds nothing of the image.
MemoryDisjoint ==
    /\ Separate(BlockExtents)
    /\ Intact => Separate(Extents)
    /\ main \in {"loaded", "running"} => load.cells \cap heap = {}

\* A subcore that is started finds every block by its id, and attaches to the
\* rings the main core made with the opposite role on each: what one core
\* sends the other receives.  With light sleep it polls descriptors in RTC
\* memory only (esp_amp_rpmsg_sub_init_by_id, esp_amp_queue_sub_init).  Under
\* the conditions of MemoryDisjoint.
PairedRings ==
    Intact =>
        /\ sub # "panicked"
        /\ \A h \in handle.sub :
               /\ Handle(h.id, h.ring, ~h.master) \in handle.main
               /\ (build.sleep /\ ~h.master) => h.ring.desc.cap = "RTC"
=============================================================================
