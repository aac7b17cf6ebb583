--------------------------- MODULE MediaTransfer ----------------------------
(***************************************************************************)
(* Media between WeCom and a session's workspace (adapters/wecom.py,       *)
(* adapters/wecom_media.py, agent/tools/media_tools.py): the parts of a    *)
(* message, downloaded concurrently and put in the order they were sent;   *)
(* and an upload, which is an init, the chunks and a finish, each waiting  *)
(* for its acknowledgement.                                                *)
(***************************************************************************)
EXTENDS Integers, Sequences, SequencesExt, FiniteSets, FiniteSetsExt

CONSTANTS MtItems, MtQuoted,   \* kinds of the message's items and of the quoted ones
          MtAttempts,          \* _DOWNLOAD_MAX_ATTEMPTS
          MtChunk,             \* UPLOAD_CHUNK_SIZE
          MtMinSize, MtCap,    \* sizes WeCom takes
          MtSizes              \* sizes of files, for model checking

\* The items of the message, then those of the message it quotes.
Parts   == MtItems \o MtQuoted
IsQuote(i) == i > Len(MtItems)
Media   == {i \in DOMAIN Parts : Parts[i] \in {"image", "file", "video"}}

VARIABLES
    left,       \* by media part: attempts left, or -1 when it is settled
    saved,      \* media parts whose bytes are in the inbox
    settled,    \* ghost: media parts in the order their downloads ended
    blocks,     \* the content blocks, << >> while the message is resolved
    size,       \* of the file to upload
    step,       \* where the upload stands
    chunk,      \* chunks acknowledged
    server      \* bytes WeCom has of it

mtIn  == <<left, saved, settled, blocks>>
mtOut == <<size, step, chunk, server>>
mtVars == <<mtIn, mtOut>>

MtInit ==
    /\ left = [i \in Media |-> MtAttempts]
    /\ saved = {} /\ settled = << >> /\ blocks = << >>
    /\ size = 0 /\ step = "idle" /\ chunk = 0 /\ server = 0

-----------------------------------------------------------------------------
(* Inbound *)

\* The quoted parts are fetched when all parts of the message itself are.
Fetching(i) ==
    /\ left[i] > 0
    /\ IsQuote(i) => \A j \in Media : ~IsQuote(j) => left[j] = -1

Settle(i) == left' = [left EXCEPT ![i] = -1] /\ settled' = Append(settled, i)

\* _http_get: the connection fails or times out, and a fresh one is tried.
AttemptFails(i) ==
    /\ Fetching(i)
    /\ IF left[i] > 1 THEN left' = [left EXCEPT ![i] = @ - 1] /\ UNCHANGED settled
       ELSE Settle(i)
    /\ UNCHANGED <<saved, blocks, mtOut>>

\* The bytes are too many, do not decrypt, or come without url or key.
MediaUnusable(i) ==
    /\ Fetching(i) /\ Settle(i)
    /\ UNCHANGED <<saved, blocks, mtOut>>

SaveMedia(i) ==
    /\ Fetching(i) /\ Settle(i)
    /\ saved' = saved \cup {i}
    /\ UNCHANGED <<blocks, mtOut>>

\* A part as a block: a picture is a block of its own, anything else is text,
\* with a placeholder for what could not be fetched.
Block(i) == IF Parts[i] = "image" /\ i \in saved THEN <<"image", i>> ELSE <<"text", i>>
Mark(text) == << <<"text", text>> >>

\* Mutant: blocks are collected as the downloads end.
BlocksAsTheyCome(from, to) ==
    [n \in 1..Len(SelectSeq(settled, LAMBDA i : i \in from..to)) |->
        Block(SelectSeq(settled, LAMBDA i : i \in from..to)[n])]

\* _flatten_payload
Flatten(from, to) == [n \in 1..(to - from + 1) |-> Block(from + n - 1)]

\* coalesce_text_blocks: adjacent texts become one.
AddBlock(out, b) ==
    IF b[1] = "text" /\ out # << >> /\ Last(out)[1] = "text"
    THEN [out EXCEPT ![Len(out)] = <<"text", Append(Last(out)[2], b[2])>>]
    ELSE Append(out, <<b[1], <<b[2]>> >>)

Coalesce(s) ==
    LET out[n \in 0..Len(s)] == IF n = 0 THEN << >> ELSE AddBlock(out[n - 1], s[n])
    IN  out[Len(s)]

\* _resolve_inbound_blocks: the quoted blocks between two marks, then the new.
Message ==
    LET new == Flatten(1, Len(MtItems))
        old == Flatten(Len(MtItems) + 1, Len(Parts))
    IN  IF old = << >> THEN new ELSE Mark(-1) \o old \o Mark(-2) \o new

Assemble ==
    /\ blocks = << >>
    /\ \A i \in Media : left[i] = -1
    /\ blocks' = Coalesce(Message)
    /\ UNCHANGED <<left, saved, settled, mtOut>>

-----------------------------------------------------------------------------
(* Outbound: send_image, send_file, upload_media *)

TotalChunks(n) == Max({1, (n + MtChunk - 1) \div MtChunk})

\* The tool checks the size; the first request announces size and chunks.
BeginUpload ==
    /\ step = "idle"
    /\ \E n \in MtSizes :
          /\ size' = n
          /\ step' = IF n < MtMinSize \/ n > MtCap THEN "refused" ELSE "init"
    /\ UNCHANGED <<mtIn, chunk, server>>

Acknowledged(from, to) ==
    /\ step = from /\ step' = to
    /\ UNCHANGED <<mtIn, size>>

InitAck == Acknowledged("init", "chunks") /\ UNCHANGED <<chunk, server>>

\* The next chunk, data[idx * C : (idx + 1) * C], and its acknowledgement.
ChunkAck ==
    /\ chunk < TotalChunks(size)
    /\ Acknowledged("chunks", "chunks")
    /\ chunk' = chunk + 1
    /\ server' = server + Max({0, Min({size - chunk * MtChunk, MtChunk})})

\* WeCom has the media; its id goes into the reply.
FinishAck ==
    /\ chunk = TotalChunks(size)
    /\ Acknowledged("chunks", "sent")
    /\ UNCHANGED <<chunk, server>>

\* An error code, no id, a lost connection or no answer in time: the upload is
\* given up, never resumed.
UploadFails ==
    /\ step \in {"init", "chunks"}
    /\ step' = "failed"
    /\ UNCHANGED <<mtIn, size, chunk, server>>

MtNext ==
    \/ \E i \in Media : AttemptFails(i) \/ MediaUnusable(i) \/ SaveMedia(i)
    \/ Assemble
    \/ BeginUpload \/ InitAck \/ ChunkAck \/ FinishAck \/ UploadFails

MtSpec == MtInit /\ [][MtNext]_mtVars

-----------------------------------------------------------------------------
(* Properties *)

Pictures(s) == SelectSeq(s, LAMBDA b : b[1] = "image")

\* Media arrive whole and in place.  Whatever order the downloads end in, the
\* pictures that were saved stand in the order they were sent, the quoted ones
\* first, and every part is in some block; and a media id is used only when
\* WeCom has every byte of the file.
MediaArrives ==
    /\ blocks # << >> =>
          /\ \A i, j \in saved : \A m, n \in DOMAIN blocks :
                /\ Parts[i] = "image" /\ Parts[j] = "image" /\ m < n
                /\ blocks[m] = <<"image", <<i>> >> /\ blocks[n] = <<"image", <<j>> >>
                => IF IsQuote(i) = IsQuote(j) THEN i < j ELSE IsQuote(i)
          /\ \A i \in DOMAIN Parts : \E n \in DOMAIN blocks : i \in Range(blocks[n][2])
    /\ step = "sent" => server = size
=============================================================================
