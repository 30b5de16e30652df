----------------------------- MODULE ImageSizes ------------------------------
(***************************************************************************)
(* The sizes a picture is served in (media/library, the image cache of     *)
(* storage/content, image/size).                                           *)
(*                                                                         *)
(* The first who asks for a missing size renders it, under the context of  *)
(* that request; whoever asks meanwhile waits for the same rendering.  A   *)
(* rendering takes one of a few slots, which it shares with the pictures   *)
(* being uploaded.  The cache is cleared whenever the disk is short of     *)
(* space.  A purge takes the picture from its work first, then its sizes,  *)
(* then its bytes.                                                         *)
(***************************************************************************)
EXTENDS Naturals, FiniteSets

CONSTANTS
    Pictures, Sizes, Readers, Workers, None,
    MaxAsks    \* bound: requests

VARIABLES
    picture,   \* where each picture is between its upload and its purge
    cache,     \* the sizes on disk
    space,     \* what the disk has left
    slots,
    rendering, \* the flight of each size
    reader,    \* each request
    asks

vars == <<picture, cache, space, slots, rendering, reader, asks>>

Keys == Pictures \X Sizes

Flight == [by : Readers \cup {None}, step : {"queued", "slot", "rendered"}]

Settings ==
    /\ Workers \in Nat \ {0} /\ MaxAsks \in Nat
    /\ IsFiniteSet(Pictures) /\ IsFiniteSet(Sizes) /\ None \notin Flight

\* The blob's row and file are there.
Stored(p) == picture[p] \notin {"absent", "gone"}

SizesOf(p) == {k \in Keys : k[1] = p}

Idle == [phase |-> "idle", key |-> None]

Init ==
    /\ picture = [p \in Pictures |-> "absent"]
    /\ cache = {} /\ space = "ample" /\ slots = Workers
    /\ rendering = [k \in Keys |-> None]
    /\ reader = [r \in Readers |-> Idle]
    /\ asks = 0

------------------------------------------------------------------------------
(* The disk.                                                                *)

DiskFills ==
    /\ space' \in {"ample", "short", "full"}
    /\ space' # space
    /\ UNCHANGED <<picture, cache, slots, rendering, reader, asks>>

EnsureSpace == space = "ample"

\* Clearing the cache may help.
MakeSpace == space # "full"

Cleared == IF EnsureSpace THEN cache ELSE {}

ClearImageCache ==
    /\ cache # {} /\ cache' = {}
    /\ UNCHANGED <<picture, space, slots, rendering, reader, asks>>

PutImageSize(k) == cache' = Cleared \cup IF MakeSpace THEN {k} ELSE {}

------------------------------------------------------------------------------
(* A picture is uploaded: Library.Accept, and the row of the work's media.  *)

Step(p, from, to) == picture[p] = from /\ picture' = [picture EXCEPT ![p] = to]

Put(p) ==
    /\ Step(p, "absent", IF MakeSpace THEN "stored" ELSE "absent")
    /\ cache' = Cleared
    /\ UNCHANGED <<space, slots, rendering, reader, asks>>

AcquireSlot == slots > 0 /\ slots' = slots - 1

ReleaseSlot == slots' = slots + 1

PrepareBegin(p) ==
    /\ Step(p, "stored", "preparing")
    /\ AcquireSlot
    /\ UNCHANGED <<cache, space, rendering, reader, asks>>

\* A picture that cannot be decoded is refused, and its bytes are left to the cleanup.
PrepareEnd(p) ==
    /\ \/ Step(p, "preparing", "prepared")
       \/ Step(p, "preparing", "refused")
    /\ ReleaseSlot
    /\ UNCHANGED <<cache, space, rendering, reader, asks>>

\* The sizes are kept as long as there is space for them.
PutSizes(p) ==
    /\ Step(p, "prepared", "sized")
    /\ cache' = Cleared \cup IF MakeSpace THEN SizesOf(p) ELSE {}
    /\ UNCHANGED <<space, slots, rendering, reader, asks>>

Attach(p) ==
    /\ Step(p, "sized", "attached")
    /\ UNCHANGED <<cache, space, slots, rendering, reader, asks>>

------------------------------------------------------------------------------
(* A purge.                                                                 *)

PreparePurge(p) ==
    /\ Step(p, "attached", "purging")
    /\ UNCHANGED <<cache, space, slots, rendering, reader, asks>>

DeleteImageSizes(p) ==
    /\ Step(p, "purging", "unsized")
    /\ cache' = cache \ SizesOf(p)
    /\ UNCHANGED <<space, slots, rendering, reader, asks>>

DeletePurgedBlob(p) ==
    /\ Step(p, "unsized", "gone")
    /\ UNCHANGED <<cache, space, slots, rendering, reader, asks>>

------------------------------------------------------------------------------
(* A reader: work.ImageSize and Library.Serve.                              *)

Becomes(r, phase) == reader' = [reader EXCEPT ![r].phase = phase]

\* The row says that the picture is there.
ImageSize(r, k) ==
    /\ asks < MaxAsks /\ asks' = asks + 1
    /\ reader[r].phase \in {"idle", "served", "failed", "left"}
    /\ picture[k[1]] = "attached"
    /\ reader' = [reader EXCEPT ![r] = [phase |-> "found", key |-> k]]
    /\ UNCHANGED <<picture, cache, space, slots, rendering>>

\* The size is there, or the reader waits for a rendering and starts it if need be.
Serve(r) ==
    LET k == reader[r].key IN
    /\ reader[r].phase = "found"
    /\ IF k \in cache
       THEN Becomes(r, "served") /\ UNCHANGED rendering
       ELSE /\ Becomes(r, "waiting")
            /\ rendering' = IF rendering[k] # None THEN rendering
                            ELSE [rendering EXCEPT ![k] = [by |-> r, step |-> "queued"]]
    /\ UNCHANGED <<picture, cache, space, slots, asks>>

\* The reader goes away, and with it the context of what it started.
Leave(r) ==
    /\ reader[r].phase = "waiting"
    /\ Becomes(r, "left")
    /\ rendering' = [k \in Keys |->
          IF rendering[k] # None /\ rendering[k].by = r
          THEN [rendering[k] EXCEPT !.by = None] ELSE rendering[k]]
    /\ UNCHANGED <<picture, cache, space, slots, asks>>

Waiting(k) == {r \in Readers : reader[r].phase = "waiting" /\ reader[r].key = k}

\* Everyone who waits has the outcome.
Land(k, phase) ==
    /\ rendering' = [rendering EXCEPT ![k] = None]
    /\ reader' = [r \in Readers |->
          IF r \in Waiting(k) THEN [reader[r] EXCEPT !.phase = phase] ELSE reader[r]]

Cancelled(k) == rendering[k].by = None

RenderBegin(k) ==
    /\ rendering[k] # None /\ rendering[k].step = "queued"
    /\ \/ AcquireSlot /\ rendering' = [rendering EXCEPT ![k].step = "slot"] /\ UNCHANGED reader
       \/ Cancelled(k) /\ Land(k, "failed") /\ UNCHANGED slots
    /\ UNCHANGED <<picture, cache, space, asks>>

KeepSlotBug == UNCHANGED slots

FailedRender == ReleaseSlot

\* Reading the original fails when it is gone or who asked first has left.
OpenSource(k) ==
    /\ rendering[k] # None /\ rendering[k].step = "slot"
    /\ IF Stored(k[1]) /\ ~ Cancelled(k)
       THEN rendering' = [rendering EXCEPT ![k].step = "rendered"] /\ UNCHANGED <<reader, slots>>
       ELSE Land(k, "failed") /\ FailedRender
    /\ UNCHANGED <<picture, cache, space, asks>>

StoreRendered(k) ==
    /\ rendering[k] # None /\ rendering[k].step = "rendered"
    /\ IF Cancelled(k) THEN UNCHANGED cache ELSE PutImageSize(k)
    /\ Land(k, IF ~ Cancelled(k) /\ MakeSpace THEN "rendered" ELSE "failed")
    /\ ReleaseSlot
    /\ UNCHANGED <<picture, space, asks>>

\* The reader looks for the size again.
Redirect(r) ==
    /\ reader[r].phase = "rendered"
    /\ Becomes(r, IF reader[r].key \in cache THEN "served" ELSE "failed")
    /\ UNCHANGED <<picture, cache, space, slots, rendering, asks>>

------------------------------------------------------------------------------
Next ==
    \/ DiskFills \/ ClearImageCache
    \/ \E p \in Pictures :
          \/ Put(p) \/ PrepareBegin(p) \/ PrepareEnd(p) \/ PutSizes(p) \/ Attach(p)
          \/ PreparePurge(p) \/ DeleteImageSizes(p) \/ DeletePurgedBlob(p)
    \/ \E r \in Readers, k \in Keys : ImageSize(r, k)
    \/ \E r \in Readers : Serve(r) \/ Leave(r) \/ Redirect(r)
    \/ \E k \in Keys : RenderBegin(k) \/ OpenSource(k) \/ StoreRendered(k)

Spec == Init /\ [][Next]_vars

------------------------------------------------------------------------------
TypeOK ==
    /\ picture \in [Pictures -> {"absent", "stored", "preparing", "refused", "prepared", "sized",
                                 "attached", "purging", "unsized", "gone"}]
    /\ cache \subseteq Keys /\ space \in {"ample", "short", "full"} /\ slots \in 0..Workers
    /\ rendering \in [Keys -> {None} \cup Flight]
    /\ reader \in [Readers -> [phase : {"idle", "found", "waiting", "rendered", "served",
                                        "failed", "left"}, key : Keys \cup {None}]]

\* No way out of a rendering or an upload keeps its slot: neither a picture that is gone
\* or cannot be decoded, nor a reader who leaves, nor a full disk (Library.acquire).
SlotsAreReturned ==
    slots + Cardinality({p \in Pictures : picture[p] = "preparing"})
          + Cardinality({k \in Keys : rendering[k] # None /\ rendering[k].step # "queued"})
    = Workers
===============================================================================
