------------------------------ MODULE ImageStore ------------------------------
(***************************************************************************)
(* Image attachments (edge-attachment-store.ts, edge-image-normalization): *)
(* admission by header, normalization by the Images binding or, when it    *)
(* fails, the older contract, and a content-addressed store in R2 or in    *)
(* the rows of the Durable Object, pinned on first use.  A deployment may  *)
(* gain and lose its bindings between any two starts; a reference that     *)
(* was handed out is in some transcript for good.                          *)
(* A picture is what its bytes say: header, decodability, and what the     *)
(* Images service would encode it to at each quality of the ladder.        *)
(***************************************************************************)
EXTENDS Integers, FiniteSets, Sequences, SequencesExt

CONSTANTS
    Messages,         \* sequences of pictures, each [id, header, mediaType, declared, width, height, bytes,
                      \*  orientation, hasAlpha, decodes, encoded]
    R2Limits,         \* [mediaTypes, maxImageBytes, maxImagePixels, maxImageDimension]
    OptimizedLimits,
    Policy,           \* [maxPixels, maxDimension, maxBytes]
    ChunkBytes,
    MaxStoredBytes,
    Batches           \* messages whose images are saved together

ASSUME WidestContract ==
    /\ R2Limits.mediaTypes \subseteq OptimizedLimits.mediaTypes
    /\ R2Limits.maxImageBytes <= OptimizedLimits.maxImageBytes
    /\ R2Limits.maxImagePixels <= OptimizedLimits.maxImagePixels
    /\ R2Limits.maxImageDimension <= OptimizedLimits.maxImageDimension
    /\ ChunkBytes \in Nat \ {0}

VARIABLES
    backend,     \* "unpinned", "private-r2" or "temporary-do": the state row
    bindings,    \* [up, bucket, images] of the running deployment
    objects,     \* stored contents: digest -> the sizes of its chunks (one in R2)
    storedBytes, \* of the state row
    batch,       \* saves under way: what each prepared and has not written
    refs         \* references handed out

imageVars == <<backend, bindings, objects, storedBytes, batch, refs>>

NoBatch == [items |-> <<>>, refs |-> {}]
Down == [up |-> FALSE, bucket |-> FALSE, images |-> FALSE]

ImageInit ==
    /\ backend = "unpinned" /\ bindings = Down
    /\ objects = <<>> /\ storedBytes = 0
    /\ batch = [b \in Batches |-> NoBatch]
    /\ refs = {}

NoSize == [width |-> 0, height |-> 0]
Greater(m, n) == IF m > n THEN m ELSE n
Sizes(chunks) == FoldSeq(LAMBDA size, sum : size + sum, 0, chunks)

----------------------------------------
(* Admission: the first rule an image breaks decides its error. *)

enforceMetadataLimits(head, limits) ==
    IF head.width * head.height > limits.maxImagePixels THEN "IMAGE_TOO_MANY_PIXELS"
    ELSE IF Greater(head.width, head.height) > limits.maxImageDimension
         THEN "IMAGE_DIMENSION_TOO_LARGE" ELSE "ok"

admitHeader(pic, declared, limits) ==
    IF pic.bytes = 0 THEN "INVALID_IMAGE"
    ELSE IF pic.bytes > limits.maxImageBytes THEN "IMAGE_TOO_LARGE"
    ELSE IF ~pic.header \/ pic.mediaType \notin limits.mediaTypes THEN "INVALID_IMAGE"
    ELSE IF pic.mediaType # declared THEN "IMAGE_TYPE_MISMATCH"
    ELSE enforceMetadataLimits(pic, limits)

\* With its pixels decoded, which the Worker does for PNG and JPEG only.
inspectImage(pic, declared, limits, decodePixels) ==
    IF admitHeader(pic, declared, limits) # "ok" THEN admitHeader(pic, declared, limits)
    ELSE IF decodePixels /\ ~(pic.decodes /\ pic.mediaType \in {"png", "jpeg"})
         THEN "INVALID_IMAGE" ELSE "ok"

edgeImageLimits(optimized) == IF optimized THEN OptimizedLimits ELSE R2Limits

----------------------------------------
(* Normalization. *)

passesThrough(pic) ==
    /\ pic.mediaType \in {"png", "jpeg"} /\ pic.orientation = 1
    /\ pic.bytes <= Policy.maxBytes
    /\ pic.width * pic.height <= Policy.maxPixels
    /\ Greater(pic.width, pic.height) <= Policy.maxDimension

\* floor(side * min(1, sqrt(maxPixels / (side * other)), maxDimension / longest)),
\* at least 1, without leaving the integers.
Scaled(side, other) ==
    LET fits(n) == /\ n * n * other <= Policy.maxPixels * side
                   /\ n * Greater(side, other) <= Policy.maxDimension * side
    IN CHOOSE n \in 1..side : (n = 1 \/ fits(n)) /\ (n = side \/ ~fits(n + 1))
normalizedDimensions(width, height) ==
    [width |-> Scaled(width, height), height |-> Scaled(height, width)]

sameShape(left, right) ==
    LET error == left.width * right.height - right.width * left.height
    IN 100 * Greater(error, -error) <= right.width * left.height

\* The first quality inside the byte target, else the smallest encoding.
LadderBytes(encoded) ==
    LET fits == {q \in DOMAIN encoded : encoded[q] <= Policy.maxBytes}
    IN IF fits # {} THEN encoded[CHOOSE q \in fits : \A r \in fits : q <= r]
       ELSE CHOOSE n \in ToSet(encoded) : \A m \in ToSet(encoded) : n <= m

SourceSides(pic)  == [width |-> pic.width, height |-> pic.height]
SwappedSides(pic) == [width |-> pic.height, height |-> pic.width]

\* What Images' scale-down makes of a size: it keeps the shape inside the box,
\* never enlarges and rounds the side that the box leaves free.
Rounded(a, b) == Greater(1, (2 * a + b) \div (2 * b))
ScaledDown(size, box) ==
    IF size.width <= box.width /\ size.height <= box.height THEN size
    ELSE IF box.width * size.height <= box.height * size.width
    THEN [width |-> box.width, height |-> Rounded(size.height * box.width, size.width)]
    ELSE [width |-> Rounded(size.width * box.height, size.height), height |-> box.height]

\* The box is on the upright axes.  Images in production turns a rotated JPEG
\* before it scales; its local mode fits the picture as it is stored.
TurnedUpright(pic, upright) == pic.orientation >= 5 /\ upright
normalizeWithImages(pic, upright) ==
    LET box == IF pic.orientation >= 5 THEN normalizedDimensions(pic.height, pic.width)
               ELSE normalizedDimensions(pic.width, pic.height)
        size == ScaledDown(IF TurnedUpright(pic, upright) THEN SwappedSides(pic) ELSE SourceSides(pic), box)
    IN [id |-> <<pic.id, "normalized", upright>>, header |-> TRUE,
        mediaType |-> IF pic.hasAlpha THEN "webp" ELSE "jpeg",
        width |-> size.width, height |-> size.height, bytes |-> LadderBytes(pic.encoded)]

\* The sides the transcript tells of the submitted image, when it was resized.
OriginalDimensions(pic, output) ==
    IF pic.orientation >= 5 /\ sameShape(output, SwappedSides(pic)) /\ ~sameShape(output, SourceSides(pic))
    THEN SwappedSides(pic) ELSE SourceSides(pic)
AsSent(pic) == [error |-> "ok", content |-> pic, original |-> NoSize]
RefusedImage(error) == [error |-> error, content |-> "none", original |-> NoSize]

\* normalizeImage(), and saveImage() without Images.
Prepared(pic, images, upright) ==
    IF ~images
    THEN IF inspectImage(pic, pic.declared, R2Limits, TRUE) = "ok" THEN AsSent(pic)
         ELSE RefusedImage(inspectImage(pic, pic.declared, R2Limits, TRUE))
    ELSE IF admitHeader(pic, pic.declared, OptimizedLimits) # "ok"
    THEN RefusedImage(admitHeader(pic, pic.declared, OptimizedLimits))
    ELSE IF passesThrough(pic)
    THEN IF inspectImage(pic, pic.declared, OptimizedLimits, TRUE) = "ok" THEN AsSent(pic)
         ELSE RefusedImage("INVALID_IMAGE")
    ELSE IF upright = "fails"
    THEN IF inspectImage(pic, pic.declared, R2Limits, TRUE) = "ok" THEN AsSent(pic)
         ELSE RefusedImage("ATTACHMENT_WRITE_FAILED")
    ELSE LET output == normalizeWithImages(pic, upright = "yes")
             original == OriginalDimensions(pic, output)
         IN [error |-> "ok", content |-> output,
             original |-> IF original = [width |-> output.width, height |-> output.height]
                          THEN NoSize ELSE original]

----------------------------------------
(* The store. *)

\* The backend a deployment with these bindings runs with, "unavailable" when
\* the pinned one needs a bucket that is gone.
resolveEdgeAttachmentStorage(bucket) ==
    IF backend = "unpinned" THEN (IF bucket THEN "private-r2" ELSE "temporary-do")
    ELSE IF backend = "private-r2" /\ ~bucket THEN "unavailable"
    ELSE backend

\* A start of the instance under a deployment's bindings; saves under way are
\* lost with the previous process.
Start(bucket, images) ==
    /\ batch' = [b \in Batches |-> NoBatch]
    /\ IF resolveEdgeAttachmentStorage(bucket) = "unavailable"
       THEN bindings' = Down /\ UNCHANGED backend
       ELSE /\ bindings' = [up |-> TRUE, bucket |-> bucket, images |-> images]
            /\ backend' = resolveEdgeAttachmentStorage(bucket)
    /\ UNCHANGED <<objects, storedBytes, refs>>

Ref(prepared) ==
    [id |-> prepared.content.id, mediaType |-> prepared.content.mediaType,
     width |-> prepared.content.width, height |-> prepared.content.height,
     bytes |-> prepared.content.bytes, original |-> prepared.original]

\* saveImages() up to its first write: every image is prepared, or the message
\* is refused with nothing written.
saveImages(b, pics, upright) ==
    /\ bindings.up /\ batch[b] = NoBatch
    /\ LET prepared == [i \in DOMAIN pics |-> Prepared(pics[i], bindings.images, upright)]
       IN /\ \A i \in DOMAIN pics : prepared[i].error = "ok"
          /\ batch' = [batch EXCEPT ![b] =
                         [items |-> [i \in DOMAIN pics |-> prepared[i].content],
                          refs |-> {Ref(prepared[i]) : i \in DOMAIN pics}]]
    /\ UNCHANGED <<backend, bindings, objects, storedBytes, refs>>

\* The sizes an object is cut into; the last chunk is what is left.
Chunks(bytes) ==
    [i \in 1..((bytes + ChunkBytes - 1) \div ChunkBytes) |->
       IF i * ChunkBytes <= bytes THEN ChunkBytes ELSE bytes - (i - 1) * ChunkBytes]

\* The contents of a batch that are not stored yet, each once.
Additions(items) == {pic \in ToSet(items) : pic.id \notin DOMAIN objects}
AddedBytes(pics) ==
    LET sum[S \in SUBSET pics] ==
          IF S = {} THEN 0 ELSE LET p == CHOOSE p \in S : TRUE IN p.bytes + sum[S \ {p}]
    IN sum[pics]

With(pics) ==
    [d \in DOMAIN objects \cup {pic.id : pic \in pics} |->
       IF d \in DOMAIN objects THEN objects[d]
       ELSE LET pic == CHOOSE p \in pics : p.id = d
            IN IF backend = "private-r2" THEN <<pic.bytes>> ELSE Chunks(pic.bytes)]

Done(b) == batch' = [batch EXCEPT ![b] = NoBatch] /\ refs' = refs \cup batch[b].refs
SaveFailed(b) == batch' = [batch EXCEPT ![b] = NoBatch] /\ UNCHANGED refs

\* The rows of a message's images are one transaction, and so is its failure.
writeBatch(b) ==
    /\ backend = "temporary-do" /\ batch[b] # NoBatch
    /\ LET additions == Additions(batch[b].items)
       IN IF storedBytes + AddedBytes(additions) > MaxStoredBytes
          THEN SaveFailed(b) /\ UNCHANGED <<objects, storedBytes>>
          ELSE /\ objects' = With(additions)
               /\ storedBytes' = storedBytes + AddedBytes(additions)
               /\ Done(b)
    /\ UNCHANGED <<backend, bindings>>

\* R2 takes one object at a time; what was put before a failure stays.
writeBytes(b) ==
    /\ backend = "private-r2" /\ batch[b] # NoBatch
    /\ objects' = With({Head(batch[b].items)})
    /\ IF Len(batch[b].items) = 1 THEN Done(b)
       ELSE batch' = [batch EXCEPT ![b].items = Tail(@)] /\ UNCHANGED refs
    /\ UNCHANGED <<backend, bindings, storedBytes>>
WriteFails(b) ==
    /\ batch[b] # NoBatch
    /\ SaveFailed(b)
    /\ UNCHANGED <<backend, bindings, objects, storedBytes>>

\* readImage(): the rows are put together, then digest, header and the sides of
\* the reference are checked against the widest contract.
readBytes(ref) ==
    IF ref.id \notin DOMAIN objects THEN "ATTACHMENT_NOT_FOUND"
    ELSE IF backend = "private-r2" THEN "ok"
    ELSE IF ref.bytes > MaxStoredBytes \/ objects[ref.id] # Chunks(ref.bytes)
         \/ Sizes(objects[ref.id]) # ref.bytes THEN "ATTACHMENT_CORRUPT"
    ELSE "ok"
readImage(ref) ==
    IF readBytes(ref) # "ok" THEN readBytes(ref)
    ELSE IF Sizes(objects[ref.id]) # ref.bytes THEN "ATTACHMENT_CORRUPT"
    ELSE inspectImage(ref @@ [header |-> TRUE], ref.mediaType, OptimizedLimits, FALSE)

ImageNext ==
    \/ \E bucket, images \in BOOLEAN : Start(bucket, images)
    \/ \E b \in Batches :
         \/ \E pics \in Messages, upright \in {"yes", "no", "fails"} : saveImages(b, pics, upright)
         \/ writeBatch(b) \/ writeBytes(b) \/ WriteFails(b)

----------------------------------------
\* The counter of the state row is what the rows hold and never passes the
\* limit, whatever messages are saved at once, share contents or fail.
StoredBytesExact ==
    backend = "temporary-do" =>
       /\ storedBytes <= MaxStoredBytes
       /\ storedBytes = FoldSet(LAMBDA d, sum : sum + Sizes(objects[d]), 0, DOMAIN objects)

\* A reference that was handed out can be read whenever the instance runs,
\* under whatever bindings its deployment has by then.  Of a resized image it
\* tells the submitted sides turned the way the stored picture is, although the
\* code only has the shapes to go by; rounding may change the shape itself, and
\* of sides that both fit it may tell either.
ReferencesStay ==
    /\ bindings.up => \A ref \in refs : readImage(ref) = "ok"
    /\ \A pics \in Messages, upright \in BOOLEAN : \A i \in DOMAIN pics : \A ref \in refs :
          /\ ref.id = <<pics[i].id, "normalized", upright>> /\ ref.original # NoSize
          /\ ~(sameShape(ref, SourceSides(pics[i])) /\ sameShape(ref, SwappedSides(pics[i])))
          => ref.original = IF TurnedUpright(pics[i], upright) THEN SwappedSides(pics[i])
                                                               ELSE SourceSides(pics[i])
==============================================================================
