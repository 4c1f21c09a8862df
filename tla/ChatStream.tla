----------------------------- MODULE ChatStream -----------------------------
(***************************************************************************)
(* A streamed completion from the provider to the client: chatStream of a  *)
(* provider adapter, the streaming branch of the chat route, which writes  *)
(* the chunks as SSE frames, bills them and stores them under the          *)
(* idempotency key, and a client, which reads the frames: chat.stream of   *)
(* an SDK (TypeScript or Python), which sends the request again until it   *)
(* gets an answer, or the dashboard's playground, which sends it once.     *)
(*                                                                         *)
(* The wire of a provider is a sequence of lines; the text is a sequence   *)
(* of pieces, each named by the client's attempt, the gateway's try and    *)
(* its place in the answer.  A frame reaches the client in two halves, so  *)
(* that a read may end in the middle of one.                               *)
(***************************************************************************)
EXTENDS Integers, Sequences, FiniteSets, Subsequences

CONSTANTS
    Providers,      \* a subset of "openai", "anthropic", "gemini", "ollama", "mock"
    Pieces,         \* pieces of text in an answer
    MaxTries,       \* attempts of withRetry in the gateway
    MaxAttempts     \* maxRetries of the SDK, and one

ASSUME StreamAssumption ==
    /\ Providers \subseteq {"openai", "anthropic", "gemini", "ollama", "mock"}
    /\ Pieces \in Nat \ {0} /\ MaxTries \in Nat \ {0} /\ MaxAttempts \in Nat \ {0}

VARIABLES
    provider,   \* the provider the request goes to
    client,     \* the SDK, "ts" or "python", or "playground"
    keyed,      \* the request has an idempotency key
    pc,         \* where the gateway's handler of each attempt is
    try,        \* its try of the provider
    pos,        \* the line whose chunk it has in hand
    text,       \* fullText: the pieces it has seen
    usage,      \* usage: TRUE once it has the provider's numbers
    failed,     \* streamFailed
    early,      \* history: the provider closed the stream before its last line
    answer,     \* what it answered: "none", "stream", "json", or an error
    down,       \* halves of frames on their way to the client
    bill,       \* usage_records: "none", or the record's usage is "zero" or "real"
    stored,     \* the result is stored under the key
    sdk,        \* where the client is
    attempt,    \* its attempt
    buffer,     \* what it has read of an unfinished frame
    got,        \* the pieces it has yielded or shown
    sawDone     \* it has read [DONE]

routeVars == <<try, pos, text, usage, failed, early>>
sdkVars == <<sdk, attempt, buffer, got, sawDone>>
callVars == <<provider, client, keyed>>
streamVars == <<callVars, pc, routeVars, answer, down, bill, stored, sdkVars>>

Attempts == 1..MaxAttempts

StreamInit ==
    /\ provider \in Providers /\ client \in {"ts", "python", "playground"}
    /\ keyed \in IF client = "ts" THEN BOOLEAN ELSE {FALSE}
    /\ pc = [a \in Attempts |-> "none"]
    /\ try = [a \in Attempts |-> 1] /\ pos = [a \in Attempts |-> 0]
    /\ text = [a \in Attempts |-> <<>>] /\ usage = [a \in Attempts |-> FALSE]
    /\ failed = [a \in Attempts |-> FALSE] /\ early = [a \in Attempts |-> FALSE]
    /\ answer = [a \in Attempts |-> "none"] /\ down = [a \in Attempts |-> <<>>]
    /\ bill = [a \in Attempts |-> "none"] /\ stored = FALSE
    /\ sdk = "send" /\ attempt = 0 /\ buffer = <<>> /\ got = <<>> /\ sawDone = FALSE

Goto(a, label) == pc' = [pc EXCEPT ![a] = label]

-----------------------------------------------------------------------------
(* The adapters *)

Texts == [i \in 1..Pieces |-> "text"]

\* What each adapter's chatStream reads, line by line.  OpenAI is not asked for
\* its usage and does not say it.
OpenAILines == Texts \o <<"finish_reason", "[DONE]">>

\* Anthropic says its usage before the end.
AnthropicLines == <<"message_start">> \o Texts \o <<"message_delta", "message_stop">>

\* Gemini's last line has text and usage.
GeminiLines == Tail(Texts) \o <<"last_text">>

\* Ollama's and the mock's last line has usage and no text.
OllamaLines == Texts \o <<"done">>

MockLines == Texts \o <<"done">>

Body ==
    CASE provider = "openai" -> OpenAILines
      [] provider = "anthropic" -> AnthropicLines
      [] provider = "gemini" -> GeminiLines
      [] provider = "ollama" -> OllamaLines
      [] provider = "mock" -> MockLines

HasText(line) == line \in {"text", "last_text"}

\* The line is the last that makes a chunk: chunk.done.
IsFinal(line) == line \in {"finish_reason", "message_stop", "last_text", "done"}

\* The adapter yields a chunk for the line.
Yields(line) == HasText(line) \/ IsFinal(line)

\* Mutant: message_delta is not looked at.
HasUsageAtStop(i) == Body[i] \in {"last_text", "done"}

\* The chunk of line i carries the provider's usage.
HasUsage(i) ==
    \/ Body[i] \in {"last_text", "done"}
    \/ Body[i] = "message_stop" /\ \E j \in 1..i : Body[j] = "message_delta"

\* The lines after i whose chunk the adapter can yield next: one, or none when
\* the generator returns.
NextChunk(i) ==
    {j \in i + 1..Len(Body) : Yields(Body[j]) /\ \A k \in i + 1..j - 1 : ~Yields(Body[k])}

\* The number of pieces in the first i lines.
Place(i) == Cardinality({k \in 1..i : HasText(Body[k])})

-----------------------------------------------------------------------------
(* The chat route *)

Frame(kind, piece) == [kind |-> kind, piece |-> piece]

\* writeSSE
Write(a, frame) ==
    down' = [down EXCEPT ![a] = @ \o << [frame |-> frame, last |-> FALSE], [frame |-> frame, last |-> TRUE] >>]

\* The handler ends with an answer that is not a stream.
Reply(a, what) ==
    /\ answer' = [answer EXCEPT ![a] = what]
    /\ Goto(a, "ended")
    /\ UNCHANGED <<callVars, routeVars, down, bill, stored, sdkVars>>

\* A key that has a stored result is answered with it, as JSON.
Replay(a) == pc[a] = "begin" /\ keyed /\ stored /\ Reply(a, "json")

\* The key, the body, the rate limit or the budget is refused.
Refuse(a) == pc[a] = "begin" /\ \E what \in {"denied", "limited"} : Reply(a, what)

Begin(a) ==
    /\ pc[a] = "begin" /\ ~(keyed /\ stored)
    /\ Goto(a, "open")
    /\ UNCHANGED <<callVars, routeVars, answer, down, bill, stored, sdkVars>>

\* A try opens a new chatStream and pulls its first chunk; then the SSE headers.
OpenStream(a) ==
    /\ pc[a] = "open"
    /\ \E i \in NextChunk(0) : pos' = [pos EXCEPT ![a] = i]
    /\ answer' = [answer EXCEPT ![a] = "stream"]
    /\ Goto(a, "write")
    /\ UNCHANGED <<callVars, try, text, usage, failed, early, down, bill, stored, sdkVars>>

\* A try fails before its first chunk and withRetry makes another.
RetryOpen(a) ==
    /\ pc[a] = "open" /\ try[a] < MaxTries
    /\ try' = [try EXCEPT ![a] = @ + 1]
    /\ UNCHANGED <<callVars, pc, pos, text, usage, failed, early, answer, down, bill, stored, sdkVars>>

\* The last try fails, the circuit is open, or the stream is empty.
OpenFails(a) == pc[a] = "open" /\ Reply(a, "error")

\* The chunk in hand is added up and written.
WriteChunk(a) ==
    LET line == Body[pos[a]]
        piece == <<a, try[a], Place(pos[a])>>
    IN  /\ pc[a] = "write"
        /\ text' = IF HasText(line) THEN [text EXCEPT ![a] = Append(@, piece)] ELSE text
        /\ usage' = [usage EXCEPT ![a] = @ \/ HasUsage(pos[a])]
        /\ Write(a, IF HasText(line) THEN Frame("delta", piece) ELSE Frame("final", <<>>))
        /\ Goto(a, "pull")
        /\ UNCHANGED <<callVars, try, pos, failed, early, answer, bill, stored, sdkVars>>

\* Mutant: the response is ended before the bookkeeping, which then has no stream.
PullChunkEndFirst(a) ==
    /\ pc[a] = "pull"
    /\ IF NextChunk(pos[a]) = {}
         THEN Goto(a, "finish") /\ UNCHANGED pos
         ELSE (\E i \in NextChunk(pos[a]) : pos' = [pos EXCEPT ![a] = i]) /\ Goto(a, "write")
    /\ UNCHANGED <<callVars, try, text, usage, failed, early, answer, down, bill, stored, sdkVars>>

\* resumeIterator pulls the next chunk; the generator returns after the last.
PullChunk(a) ==
    /\ pc[a] = "pull"
    /\ IF NextChunk(pos[a]) = {}
         THEN Goto(a, "record") /\ UNCHANGED pos
         ELSE (\E i \in NextChunk(pos[a]) : pos' = [pos EXCEPT ![a] = i]) /\ Goto(a, "write")
    /\ UNCHANGED <<callVars, try, text, usage, failed, early, answer, down, bill, stored, sdkVars>>

\* The provider closes the stream before its last line: the generator returns.
CloseEarly(a) ==
    /\ pc[a] = "pull" /\ NextChunk(pos[a]) # {}
    /\ early' = [early EXCEPT ![a] = TRUE]
    /\ Goto(a, "record")
    /\ UNCHANGED <<callVars, try, pos, text, usage, failed, answer, down, bill, stored, sdkVars>>

\* The connection breaks, also between the last chunk and the end of the body, or
\* a line does not parse: an error frame, and no record.
BreakStream(a) ==
    /\ pc[a] = "pull"
    /\ failed' = [failed EXCEPT ![a] = TRUE]
    /\ Write(a, Frame("error", <<>>))
    /\ Goto(a, "finish")
    /\ UNCHANGED <<callVars, try, pos, text, usage, early, answer, bill, stored, sdkVars>>

RecordUsage(a) ==
    /\ pc[a] = "record"
    /\ bill' = [bill EXCEPT ![a] = IF usage[a] THEN "real" ELSE "zero"]
    /\ Goto(a, IF keyed THEN "store" ELSE "finish")
    /\ UNCHANGED <<callVars, routeVars, answer, down, stored, sdkVars>>

StoreResult(a) ==
    /\ pc[a] = "store"
    /\ stored' = TRUE
    /\ Goto(a, "finish")
    /\ UNCHANGED <<callVars, routeVars, answer, down, bill, sdkVars>>

\* The record or the store fails: the handler of a hijacked reply rejects, and
\* nobody ends the response.
Abandon(a) ==
    /\ pc[a] \in {"record", "store"}
    /\ Goto(a, "hung")
    /\ UNCHANGED <<callVars, routeVars, answer, down, bill, stored, sdkVars>>

\* [DONE] and the end of the response.
Finish(a) ==
    /\ pc[a] = "finish"
    /\ Write(a, Frame("[DONE]", <<>>))
    /\ Goto(a, "ended")
    /\ UNCHANGED <<callVars, routeVars, answer, bill, stored, sdkVars>>

\* The gateway dies, and its connections with it.
Die(a) ==
    /\ pc[a] \notin {"none", "ended", "dead"}
    /\ Goto(a, "dead")
    /\ UNCHANGED <<callVars, routeVars, answer, down, bill, stored, sdkVars>>

-----------------------------------------------------------------------------
(* The SDKs *)

gatewayVars == <<callVars, routeVars, answer, bill, stored>>

Send ==
    /\ client \in {"ts", "python"} /\ sdk = "send"
    /\ attempt' = attempt + 1
    /\ Goto(attempt + 1, "begin")
    /\ sdk' = "wait"
    /\ UNCHANGED <<gatewayVars, down, buffer, got, sawDone>>

\* What #request does with an attempt that may be repeated.
TryAgain == sdk' = IF attempt < MaxAttempts THEN "send" ELSE "thrown"

\* The answer's headers: a 429 or a 5xx is tried again, any other error is thrown.
Headers ==
    /\ client \in {"ts", "python"} /\ sdk = "wait" /\ answer[attempt] # "none"
    /\ CASE answer[attempt] \in {"stream", "json"} -> sdk' = "read"
         [] answer[attempt] \in {"limited", "error"} -> TryAgain
         [] OTHER -> sdk' = "thrown"
    /\ UNCHANGED <<gatewayVars, pc, down, attempt, buffer, got, sawDone>>

\* Mutant: the timer is stopped when the headers are there.
TimeoutHeaders ==
    /\ client = "ts" /\ sdk = "wait"
    /\ TryAgain
    /\ UNCHANGED <<gatewayVars, pc, down, attempt, buffer, got, sawDone>>

\* The timer runs out or the connection fails.  Once there is a response nothing
\* is tried again: the error is thrown to the reader.
Timeout ==
    /\ client = "ts"
    /\ \/ sdk = "wait" /\ TryAgain
       \/ sdk = "read" /\ sdk' = "thrown"
    /\ UNCHANGED <<gatewayVars, pc, down, attempt, buffer, got, sawDone>>

\* Python: _open catches the URLError of a request that could not be sent, and
\* tries again; a timeout in waiting for the response passes through it.
PythonTimeout ==
    /\ client = "python"
    /\ \/ sdk = "wait" /\ (TryAgain \/ sdk' = "thrown")
       \/ sdk = "read" /\ sdk' = "thrown"
    /\ UNCHANGED <<gatewayVars, pc, down, attempt, buffer, got, sawDone>>

\* The caller's AbortSignal: nothing is tried again.
Abort ==
    /\ client = "ts" /\ sdk \in {"send", "wait", "read"}
    /\ sdk' = "thrown"
    /\ UNCHANGED <<gatewayVars, pc, down, attempt, buffer, got, sawDone>>

\* The frames that are whole in what has been read, where halves alternate; a
\* second half whose first is lost does not parse.
Whole(halves) ==
    LET lost == IF halves # <<>> /\ halves[1].last THEN 1 ELSE 0
    IN  [k \in 1..(Len(halves) - lost) \div 2 |-> halves[lost + 2 * k].frame]

\* The pieces of the frames of some kinds, in their order.
PiecesOf(frames, kinds) ==
    LET chosen == Selected(frames, {k \in DOMAIN frames : frames[k].kind \in kinds})
    IN  [i \in DOMAIN chosen |-> chosen[i].piece]

\* Mutant: each read is parsed for itself.
RestNothing(halves) == <<>>

\* What is left for the next read.
Rest(halves) ==
    IF halves # <<>> /\ ~halves[Len(halves)].last THEN <<halves[Len(halves)]>> ELSE <<>>

\* A read of n halves: the whole frames with a delta are yielded, others skipped,
\* and [DONE], always the last, returns.
Read(n) ==
    LET halves == buffer \o SubSeq(down[attempt], 1, n)
        frames == Whole(halves)
        done == \E i \in 1..Len(frames) : frames[i].kind = "[DONE]"
    IN  /\ client = "ts" /\ sdk = "read" /\ n <= Len(down[attempt])
        /\ down' = [down EXCEPT ![attempt] = SubSeq(@, n + 1, Len(@))]
        /\ buffer' = Rest(halves)
        /\ got' = got \o PiecesOf(frames, {"delta"})
        /\ sawDone' = done
        /\ sdk' = IF done THEN "returned" ELSE sdk
        /\ UNCHANGED <<gatewayVars, pc, attempt>>

\* Python: the response is read line by line, and a line is a whole frame.
PythonRead ==
    LET frame == down[attempt][1].frame
    IN  /\ client = "python" /\ sdk = "read" /\ down[attempt] # <<>>
        /\ down' = [down EXCEPT ![attempt] = SubSeq(@, 3, Len(@))]
        /\ got' = IF frame.kind = "delta" THEN Append(got, frame.piece) ELSE got
        /\ sawDone' = (frame.kind = "[DONE]")
        /\ sdk' = IF frame.kind = "[DONE]" THEN "returned" ELSE sdk
        /\ UNCHANGED <<gatewayVars, pc, attempt, buffer>>

\* The body ends without [DONE], as a JSON body does, or with the connection.
ReadEnd ==
    /\ sdk = "read" /\ down[attempt] = <<>> /\ pc[attempt] \in {"ended", "dead"}
    /\ sdk' = IF pc[attempt] = "ended" THEN "returned" ELSE "thrown"
    /\ UNCHANGED <<gatewayVars, pc, down, attempt, buffer, got, sawDone>>

-----------------------------------------------------------------------------
(* The playground *)

\* The dashboard's route sends the request on, once, and without a key.
PlaygroundSend ==
    /\ client = "playground" /\ sdk = "send"
    /\ attempt' = 1
    /\ Goto(1, "begin")
    /\ sdk' = "wait"
    /\ UNCHANGED <<gatewayVars, down, buffer, got, sawDone>>

\* Any error is shown, none is tried again.
PlaygroundHeaders ==
    /\ client = "playground" /\ sdk = "wait" /\ answer[attempt] # "none"
    /\ sdk' = IF answer[attempt] = "stream" THEN "read" ELSE "thrown"
    /\ UNCHANGED <<gatewayVars, pc, down, attempt, buffer, got, sawDone>>

\* Every frame's delta is appended to the output, of an error frame "undefined",
\* here <<>>; a final frame's is empty, and [DONE] is passed over.
PlaygroundRead(n) ==
    LET halves == buffer \o SubSeq(down[attempt], 1, n)
        frames == Whole(halves)
    IN  /\ client = "playground" /\ sdk = "read" /\ n <= Len(down[attempt])
        /\ down' = [down EXCEPT ![attempt] = SubSeq(@, n + 1, Len(@))]
        /\ buffer' = Rest(halves)
        /\ got' = got \o PiecesOf(frames, {"delta", "error"})
        /\ sawDone' = (sawDone \/ \E i \in 1..Len(frames) : frames[i].kind = "[DONE]")
        /\ UNCHANGED <<gatewayVars, pc, sdk, attempt>>

\* The browser's connection or the route's fails.  There is no timer.
PlaygroundFails ==
    /\ client = "playground" /\ sdk \in {"wait", "read"}
    /\ sdk' = "thrown"
    /\ UNCHANGED <<gatewayVars, pc, down, attempt, buffer, got, sawDone>>

-----------------------------------------------------------------------------

Handler(a) ==
    \/ Replay(a) \/ Refuse(a) \/ Begin(a) \/ OpenStream(a) \/ RetryOpen(a) \/ OpenFails(a)
    \/ WriteChunk(a) \/ PullChunk(a) \/ CloseEarly(a) \/ BreakStream(a)
    \/ RecordUsage(a) \/ StoreResult(a) \/ Abandon(a) \/ Finish(a) \/ Die(a)

StreamNext ==
    \/ \E a \in Attempts : Handler(a)
    \/ Send \/ Headers \/ Timeout \/ PythonTimeout \/ Abort
    \/ (\E n \in 1..2 * Pieces + 6 : Read(n) \/ PlaygroundRead(n)) \/ PythonRead \/ ReadEnd
    \/ PlaygroundSend \/ PlaygroundHeaders \/ PlaygroundFails

\* The SDK's own code goes on, and its timer runs out; of the gateway nothing is
\* assumed.
Fairness == WF_streamVars(Send) /\ WF_streamVars(Headers) /\ WF_streamVars(Timeout \/ PythonTimeout)

StreamSpec == StreamInit /\ [][StreamNext]_streamVars /\ Fairness

-----------------------------------------------------------------------------
(* Properties *)

\* The text the client has seen is the beginning of one try's answer: no piece is
\* lost, repeated or from another try, wherever frames are split and whatever was
\* tried again; only the playground adds a word when the stream breaks.
DeliveredIsPrefix ==
    \A i \in 1..Len(got) :
        \/ got[i] = <<attempt, try[attempt], i>>
        \/ client = "playground" /\ failed[attempt] /\ i = Len(got)

\* A client that has read [DONE] of a stream that the provider neither broke nor
\* closed early has the whole answer, and the request is billed and stored: it can
\* be replayed at once.  A stream closed early is billed and stored as well, as a part
\* of the answer: the adapters take the end of the connection for the end of the text,
\* although routes.ts:547 says that a "broken/partial stream must never be recorded".
DoneMeansKept ==
    sawDone /\ ~failed[attempt] /\ ~early[attempt]
        => /\ got = [i \in 1..Pieces |-> <<attempt, try[attempt], i>>]
           /\ bill[attempt] # "none"
           /\ keyed => stored

\* A stream that ran to its last line is billed with the provider's usage, by
\* whichever adapter, but OpenAI's, which does not ask for it.
UsageBilled ==
    \A a \in Attempts : bill[a] = "zero" => early[a] \/ provider = "openai"

\* A call of an SDK returns or throws, also when the gateway never ends the
\* response.  (The playground, which has no timer, waits for ever.)
CallEnds == client # "playground" => <>(sdk \in {"returned", "thrown"})
=============================================================================
