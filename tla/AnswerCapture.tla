--------------------------- MODULE AnswerCapture ---------------------------
(***************************************************************************)
(* What becomes of a backend's answer in the handlers of                   *)
(* POST /v1/chat/completions and POST /v1/messages: what the client gets   *)
(* and what is put on the save queue.                                      *)
(*                                                                         *)
(* A streamed answer is a sequence of lines, each a head, a tail and a     *)
(* newline, which the network delivers in chunks that may end after any of *)
(* the three.  Every chunk is forwarded as it comes, and read on the way   *)
(* by a callback: the chat handler reads each chunk by itself, the         *)
(* messages handler keeps what has no newline yet in pending_sse.  A head  *)
(* or a tail alone is no JSON and is skipped silently.  Captured text is   *)
(* the set of lines it came from; lines are appended in their order.       *)
(***************************************************************************)
EXTENDS Naturals

CONSTANT N         \* lines of an event stream

ASSUME LinesAssumption == N \in Nat

Lines == 1..N
HeadAt(i) == 3 * i - 2
TailAt(i) == 3 * i - 1
NewlineAt(i) == 3 * i

VARIABLES
    request,       \* the client's request, as far as the handlers ask
    texts,         \* lines of the answer that carry text
    at,            \* where the handler stands
    got,           \* how much of the answer has come, and been forwarded
    parsed,        \* how much of it left pending_sse
    captured,      \* accumulated_content
    status,        \* what the client is answered
    saved,         \* lines of the answer enqueued, if any
    enqueued,      \* whether enqueue_save was called
    cuts           \* history: where chunks ended

captureVars == <<request, texts, at, got, parsed, captured, status, saved, enqueued, cuts>>

(* user: the last user message has text; turns: there is any user or
   assistant message, so that the conversation's context is not empty. *)
Request == {r \in [endpoint : {"chat", "messages"}, stream : BOOLEAN,
                   wellFormed : BOOLEAN, user : BOOLEAN, turns : BOOLEAN] :
              r.user => r.turns}

CaptureTypeOK ==
    /\ request \in Request /\ texts \subseteq Lines
    /\ at \in {"received", "posted", "streaming", "done"}
    /\ got \in 0..(3 * N) /\ parsed \in 0..got
    /\ captured \subseteq texts /\ saved \subseteq texts
    /\ status \in {"none", "refused", "unreachable", "error", "ok"}
    /\ enqueued \in BOOLEAN
    /\ cuts \subseteq 0..got

CaptureInit ==
    /\ request \in Request /\ texts \in SUBSET Lines
    /\ at = "received" /\ got = 0 /\ parsed = 0 /\ captured = {}
    /\ status = "none" /\ saved = {} /\ enqueued = FALSE /\ cuts = {}

(* Body size, JSON, the messages array, and for /v1/messages its last role. *)
Refuse ==
    /\ at = "received" /\ ~request.wellFormed
    /\ at' = "done" /\ status' = "refused"
    /\ UNCHANGED <<request, texts, got, parsed, captured, saved, enqueued, cuts>>

(* Injection and forwarding are ChatRequests'.  A streamed answer is begun with
   status 200, before the backend is asked. *)
Post ==
    /\ at = "received" /\ request.wellFormed
    /\ IF request.stream
       THEN at' = "streaming" /\ status' = "ok"
       ELSE at' = "posted" /\ UNCHANGED status
    /\ UNCHANGED <<request, texts, got, parsed, captured, saved, enqueued, cuts>>

Unreachable ==
    /\ at = "posted" /\ at' = "done" /\ status' = "unreachable"
    /\ UNCHANGED <<request, texts, got, parsed, captured, saved, enqueued, cuts>>

(* Another status than 200 is forwarded with its body. *)
BackendError ==
    /\ at = "posted" /\ at' = "done" /\ status' = "error"
    /\ UNCHANGED <<request, texts, got, parsed, captured, saved, enqueued, cuts>>

(* A whole answer.  Without text (a tool call) the chat handler's parse throws;
   an empty text it saves, which the messages handler does not. *)
Answer ==
    /\ at = "posted" /\ at' = "done" /\ status' = "ok"
    /\ got' = 3 * N /\ cuts' = {3 * N}
    /\ enqueued' \in {e \in BOOLEAN :
         e => request.user /\ (texts # {} \/ request.endpoint = "chat")}
    /\ (texts # {} /\ request.user) => enqueued'
    /\ saved' = IF enqueued' THEN texts ELSE {}
    /\ UNCHANGED <<request, texts, parsed, captured>>

-----------------------------------------------------------------------------
(* Streaming *)

(* Mutant: only lines whose newline is in the same chunk. *)
ReadTerminated(from, to) ==
    {i \in texts : {HeadAt(i), TailAt(i), NewlineAt(i)} \subseteq from..to}

(* The chat handler splits the chunk at its newlines. *)
ReadChunk(from, to) == {i \in texts : {HeadAt(i), TailAt(i)} \subseteq from..to}

(* The messages handler takes whole lines off pending_sse. *)
ReadPending(to) ==
    {i \in texts : {HeadAt(i), TailAt(i), NewlineAt(i)} \subseteq (parsed + 1)..to}

(* Mutant: the rest of a chunk is not kept. *)
AllRead(to) == to

LinesRead(to) == 3 * (to \div 3)

Chunk(to) ==
    /\ at = "streaming" /\ to \in (got + 1)..(3 * N)
    /\ got' = to /\ cuts' = cuts \cup {to}
    /\ IF request.endpoint = "chat"
       THEN /\ captured' = captured \cup ReadChunk(got + 1, to)
            /\ UNCHANGED parsed
       ELSE /\ captured' = captured \cup ReadPending(to)
            /\ parsed' = LinesRead(to)
    /\ UNCHANGED <<request, texts, at, status, saved, enqueued>>

(* save_user is the conversation's context for a chat, which does not need the
   last user message to have text; user_text for the other. *)
Remembered == IF request.endpoint = "chat" THEN request.turns ELSE request.user

(* The backend is through, or gone: Post's result is not looked at. *)
End ==
    /\ at = "streaming" /\ at' = "done"
    /\ enqueued' = (captured # {} /\ Remembered)
    /\ saved' = IF enqueued' THEN captured ELSE {}
    /\ UNCHANGED <<request, texts, got, parsed, captured, status, cuts>>

CaptureNext ==
    \/ Refuse \/ Post \/ Unreachable \/ BackendError \/ Answer \/ End
    \/ \E to \in 1..(3 * N) : Chunk(to)

CaptureSpec == CaptureInit /\ [][CaptureNext]_captureVars

-----------------------------------------------------------------------------
Streamed(endpoint) == at = "done" /\ request.stream /\ request.endpoint = endpoint
                      /\ enqueued

(* However the network cuts a streamed /v1/messages answer, what is saved is the
   text of every line that came to its end: pending_sse loses and repeats
   nothing, and a broken stream costs the line it broke in. *)
MessagesSavedWhole ==
    Streamed("messages") => saved = {i \in texts : NewlineAt(i) <= got}

(* A line of a streamed chat answer is saved unless a chunk ended inside it:
   then neither part parses and its text is missing from the memory, though
   the client has it. *)
ChatLosesCutLines ==
    Streamed("chat") =>
        saved = {i \in texts : TailAt(i) <= got /\ HeadAt(i) \notin cuts}

=============================================================================
