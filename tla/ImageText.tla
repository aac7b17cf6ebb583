----------------------------- MODULE ImageText ------------------------------
(***************************************************************************)
(* Pictures on their way to a model: the vision strategy of a role         *)
(* (vision_shim.py), the cache of inlined pictures (llm/image_cache.py),   *)
(* and describe_image with its cache of descriptions                       *)
(* (agent/tools/describe_image.py, llm/image_description_cache.py).        *)
(*                                                                         *)
(* A picture file is a path with a version; size and modification time     *)
(* tell the versions apart.  Descriptions are asked for concurrently, and  *)
(* tools of this or another turn rewrite files while a request is out.     *)
(***************************************************************************)
EXTENDS Integers, Sequences, SequencesExt, FiniteSets, FiniteSetsExt

CONSTANTS ImPaths, ImCalls,          \* files; OCR requests that may be out at a time
          ImWeight,                  \* by version: "empty", "fits" or "oversized"
          ImMaxEntries, ImMaxBytes,  \* of either cache
          ImUndecodable              \* versions Pillow cannot open

Versions == DOMAIN ImWeight

VARIABLES
    version,    \* by path: 0, or the version on disk
    written,    \* by path: the last version that was written
    resize,     \* llm.vision.oversized_image is "resize"
    uris, uriBytes,       \* image_cache: entries, oldest first, and their total
    descs, descBytes,     \* image_description_cache
    call,       \* by request: NoCall, or what was asked and what was shown
    hasty       \* ghost: the file changed while its description was asked for

imVars == <<version, written, resize, uris, uriBytes, descs, descBytes, call, hasty>>

NoCall == [path |-> "", shown |-> 0, asked |-> 0]
Blind  == 0     \* the model was shown a text placeholder instead

ImInit ==
    /\ version = [p \in ImPaths |-> 0] /\ written = version
    /\ resize = TRUE
    /\ uris = << >> /\ uriBytes = 0
    /\ descs = << >> /\ descBytes = 0
    /\ call = [c \in ImCalls |-> NoCall]
    /\ hasty = {}

-----------------------------------------------------------------------------
(* The caches: entries are records with key and size, oldest first *)

Bytes(s) == FoldSeq(LAMBDA e, n : e.size + n, 0, s)

Hit(s, k) == \E i \in DOMAIN s : s[i].key = k
Place(s, k) == CHOOSE i \in DOMAIN s : s[i].key = k
Entry(s, k) == s[Place(s, k)]
Without(s, k) == IF Hit(s, k) THEN RemoveAt(s, Place(s, k)) ELSE s
MoveToEnd(s, k) == Append(Without(s, k), Entry(s, k))

\* _evict_if_needed: how many of the oldest go, for a counter that stands at n.
Victims(s, n) ==
    Min({v \in 0..Len(s) :
           \/ v = Len(s)
           \/ /\ Len(s) - v <= ImMaxEntries
              /\ n - Bytes(SubSeq(s, 1, v)) <= ImMaxBytes})

Kept(s, n)     == SubSeq(s, Victims(s, n) + 1, Len(s))
BytesKept(s, n) == Max({0, n - Bytes(SubSeq(s, 1, Victims(s, n)))})

-----------------------------------------------------------------------------
(* ImageDataURICache.get *)

Readable(v) == v # 0 /\ ImWeight[v] # "empty"

\* Pillow opens it and writes it smaller.
Shrinks(v) == resize /\ v \notin ImUndecodable

\* What the cache turns into a data URI: files that fit; others when they are
\* to be resized and can be decoded.
Inlined(v) ==
    /\ Readable(v)
    /\ ImWeight[v] = "oversized" => Shrinks(v)

\* The key holds the resize parameters too, but configure_default_cache makes
\* a new cache whenever these change.
Inline(p) ==
    LET v == version[p]
        k == <<p, v>>
        s == Append(uris, [key |-> k, size |-> IF ImWeight[v] = "oversized" THEN 2 ELSE 1])
        n == uriBytes + Last(s).size
    IN IF ~Inlined(v) THEN UNCHANGED <<uris, uriBytes>>
       ELSE IF Hit(uris, k) THEN uris' = MoveToEnd(uris, k) /\ UNCHANGED uriBytes
       ELSE uris' = Kept(s, n) /\ uriBytes' = BytesKept(s, n)

Reconfigure ==
    /\ resize' = ~resize
    /\ uris' = << >> /\ uriBytes' = 0
    /\ UNCHANGED <<version, written, descs, descBytes, call, hasty>>

\* A chat request of a role with the "direct" strategy expands the pictures of
\* its history; with "tool" it carries their paths only.
ShowDirectly(p) ==
    /\ Inline(p)
    /\ UNCHANGED <<version, written, resize, descs, descBytes, call, hasty>>

-----------------------------------------------------------------------------
(* describe_image *)

\* _describe_one: a cached description makes do without a request.
Ask(c, p) ==
    LET k == <<p, version[p]>>
    IN IF Hit(descs, k)
       THEN /\ descs' = MoveToEnd(descs, k)
            /\ UNCHANGED <<uris, uriBytes, call>>
       ELSE /\ call' = [call EXCEPT ![c] =
                          [path |-> p, asked |-> version[p],
                           shown |-> IF Inlined(version[p]) THEN version[p] ELSE Blind]]
            /\ Inline(p)
            /\ UNCHANGED descs

\* describe_images: each picture of a batch by itself, as many at a time as the
\* semaphore lets in.  (A file that is missing or empty is only reported.)
Describe(c, p) ==
    /\ call[c] = NoCall /\ Readable(version[p])
    /\ Ask(c, p)
    /\ UNCHANGED <<version, written, resize, descBytes, hasty>>

\* Mutant: the bytes of a replaced description are not taken off.
PutUncounted(k, e) ==
    LET s == Append(Without(descs, k), e)
        n == descBytes + e.size
    IN descs' = Kept(s, n) /\ descBytes' = BytesKept(s, n)

\* ImageDescriptionCache.put
Put(k, e) ==
    LET old == IF Hit(descs, k) THEN Entry(descs, k).size ELSE 0
        s == Append(Without(descs, k), e)
        n == descBytes - old + e.size
    IN descs' = Kept(s, n) /\ descBytes' = BytesKept(s, n)

\* The model's text is stored for the version that is on disk by now.
Described(c) ==
    LET p == call[c].path
        k == <<p, version[p]>>
    IN /\ call[c] # NoCall
       /\ \E size \in 1..2 :
             IF version[p] = 0 THEN UNCHANGED <<descs, descBytes>>
             ELSE Put(k, [key |-> k, size |-> size, of |-> call[c].shown])
       /\ call' = [call EXCEPT ![c] = NoCall]
       /\ hasty' = IF version[p] # call[c].asked THEN hasty \cup {k} ELSE hasty
       /\ UNCHANGED <<version, written, resize, uris, uriBytes>>

\* The request fails or the answer is empty: nothing is stored.
NotDescribed(c) ==
    /\ call[c] # NoCall
    /\ call' = [call EXCEPT ![c] = NoCall]
    /\ UNCHANGED <<version, written, resize, uris, uriBytes, descs, descBytes, hasty>>

WriteImage(p) ==
    /\ written[p] + 1 \in Versions
    /\ version' = [version EXCEPT ![p] = written[p] + 1]
    /\ written' = [written EXCEPT ![p] = @ + 1]
    /\ UNCHANGED <<resize, uris, uriBytes, descs, descBytes, call, hasty>>

\* _unlink_older_than, in the sweep of the session's directories; or a command.
RemoveImage(p) ==
    /\ version[p] # 0
    /\ version' = [version EXCEPT ![p] = 0]
    /\ UNCHANGED <<written, resize, uris, uriBytes, descs, descBytes, call, hasty>>

ImNext ==
    \/ \E p \in ImPaths : WriteImage(p) \/ RemoveImage(p) \/ ShowDirectly(p)
    \/ Reconfigure
    \/ \E c \in ImCalls :
          (\E p \in ImPaths : Describe(c, p)) \/ Described(c) \/ NotDescribed(c)

ImSpec == ImInit /\ [][ImNext]_imVars

-----------------------------------------------------------------------------
(* Properties *)

\* Both caches stay within their limits, and their byte counters count what is
\* in them, whatever is replaced, evicted or asked for twice: a counter that
\* drifted up would evict every entry at once, for good.
CachesAccounted ==
    /\ uriBytes = Bytes(uris) /\ descBytes = Bytes(descs)
    /\ \A s \in {uris, descs} : Len(s) <= ImMaxEntries /\ Bytes(s) <= ImMaxBytes
    /\ \A i, j \in DOMAIN descs : descs[i].key = descs[j].key => i = j
    /\ \A i, j \in DOMAIN uris : uris[i].key = uris[j].key => i = j

\* A stored description was given for just that version of the file; but one
\* whose file was rewritten while the model looked at it is stored for the new
\* version, and one of a picture that could not be shown is of a placeholder.
DescriptionsMatch ==
    \A i \in DOMAIN descs :
        \/ descs[i].of = descs[i].key[2]
        \/ descs[i].of = Blind
        \/ descs[i].key \in hasty

\* Claimed of the cache ("a rewritten file invalidates its entry"): what it
\* returns for a file is never the description of an older version of it.
RewriteInvalidates ==
    \A i \in DOMAIN descs : descs[i].of \in {Blind, descs[i].key[2]}
=============================================================================
