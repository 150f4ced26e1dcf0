-------------------------- MODULE StreamingSessions --------------------------
(***************************************************************************)
(* src/shared/llm: streaming_handler, and the create_streaming_completion  *)
(* and check_rate_limit of openai_client (anthropic_client has the same).  *)
(* Threads call one client; each call has a session of its own, but all    *)
(* share the HttpClient, its one curl handle and one streaming callback,   *)
(* also with requests that do not stream.                                  *)
(*                                                                         *)
(* What the service answers is a sequence of symbols: an event, then two   *)
(* line ends.  It arrives in chunks that are cut anywhere.                 *)
(***************************************************************************)
EXTENDS Integers, Sequences, FiniteSets

CONSTANTS
  Callers,                     \* threads, each in one call; also names its session
  LineEnd,                     \* how the service ends a line: CR and LF, or LF alone
  MaxRequests, Window,         \* max_requests_per_minute_, rate_limit_window_
  MaxEvents, MaxTime, MaxOthers,  \* bounds: events of an answer, the clock, other requests
  CR, LF, NoCaller

ASSUME StreamingConstantsOK ==
  /\ NoCaller \notin Callers
  /\ LineEnd \in {<<LF>>, <<CR, LF>>}
  /\ {MaxRequests, Window, MaxEvents, MaxTime, MaxOthers} \subseteq Nat

VARIABLES
  now,
  request_timestamps,
  others, passed,      \* requests of others; history: when requests passed the check
  streaming_callback,  \* HttpClient: the session whose process_data it calls
  transferring,        \* the caller in curl_easy_perform
  other,               \* where a request of others is
  write_function,      \* WRITEFUNCTION: the streaming callback, or a response's body
  pc,
  batch, into,         \* process_events: the events still to do, and their session
  active_sessions,
  active, event_buffer,
  heard, endings,      \* history: calls of a session's callbacks
  sent, wire,          \* the answer: its events, and what has not arrived yet
  crossed              \* history: calls that another one met in the HttpClient

rate == <<now, request_timestamps, others, passed>>
http == <<streaming_callback, transferring, other, write_function>>
session == <<active_sessions, active, event_buffer, heard, endings>>
service == <<sent, wire>>
vars == <<rate, http, pc, batch, into, session, service, crossed>>

Kinds == {"token", "completion", "error"}
Event == [kind : Kinds, to : Callers, number : 1..MaxEvents]
Symbols == Event \cup {CR, LF}

ASSUME SymbolsApart == CR \notin Event /\ LF \notin Event /\ CR # LF

Init ==
  /\ now = 0 /\ request_timestamps = <<>> /\ others = 0 /\ passed = <<>>
  /\ streaming_callback = NoCaller /\ transferring = NoCaller
  /\ other = "none" /\ write_function = "body"
  /\ pc = [c \in Callers |-> "create"]
  /\ batch = [c \in Callers |-> <<>>] /\ into = [c \in Callers |-> NoCaller]
  /\ active_sessions = {}
  /\ active = [c \in Callers |-> FALSE]
  /\ event_buffer = [c \in Callers |-> <<>>]
  /\ heard = event_buffer /\ endings = event_buffer
  /\ sent = event_buffer /\ wire = event_buffer
  /\ crossed = {}

Tick ==
  /\ now < MaxTime
  /\ now' = now + 1
  /\ UNCHANGED <<request_timestamps, others, passed, http, pc, batch, into, session, service,
                 crossed>>

Goto(c, from, to) == pc[c] = from /\ pc' = [pc EXCEPT ![c] = to]

-----------------------------------------------------------------------------
(* check_rate_limit                                                        *)

OutdatedMutantInWindow(t) == t <= now - Window

Outdated(t) == t < now - Window

\* The requests before the window are removed from the front.
Recent ==
  LET n == CHOOSE n \in 0..Len(request_timestamps) :
             /\ \A i \in 1..n : Outdated(request_timestamps[i])
             /\ n < Len(request_timestamps) => ~Outdated(request_timestamps[n + 1])
  IN  SubSeq(request_timestamps, n + 1, Len(request_timestamps))

PassMutantOffByOne ==
  /\ Len(Recent) <= MaxRequests
  /\ request_timestamps' = Append(Recent, now)
  /\ passed' = Append(passed, now)

Pass ==
  /\ Len(Recent) < MaxRequests
  /\ request_timestamps' = Append(Recent, now)
  /\ passed' = Append(passed, now)

Refuse ==
  /\ Len(Recent) >= MaxRequests
  /\ request_timestamps' = Recent
  /\ UNCHANGED passed

\* A request that does not stream, of another thread: create_chat_completion.
OtherRequest ==
  /\ other = "none" /\ others < MaxOthers
  /\ others' = others + 1
  /\ \/ Pass /\ other' = "post"
     \/ Refuse /\ UNCHANGED other
  /\ UNCHANGED <<now, streaming_callback, transferring, write_function, pc, batch, into,
                 session, service, crossed>>

\* Callers between set_streaming_callback and the end of their transfer.
InHttp == {d \in Callers : pc[d] \in {"perform", "transfer"}}

\* The curl handle does one transfer at a time and refuses another.
HandleBusy == transferring # NoCaller \/ other = "transfer"

\* HttpClient::post sets the options of the handle, also while it is in use.
OtherPost ==
  /\ other = "post"
  /\ write_function' = "body"
  /\ other' = IF HandleBusy THEN "none" ELSE "transfer"
  /\ crossed' = crossed \cup InHttp
  /\ UNCHANGED <<rate, streaming_callback, transferring, pc, batch, into, session, service>>

\* What of its body a streaming call has meanwhile directed to the callback holds no
\* event, and is left out.
OtherReturns ==
  /\ other = "transfer"
  /\ other' = "none"
  /\ UNCHANGED <<rate, streaming_callback, transferring, write_function, pc, batch, into,
                 session, service, crossed>>

-----------------------------------------------------------------------------
(* StreamingSession                                                        *)

EndMutantAgain(s, how) ==
  /\ active' = [active EXCEPT ![s] = FALSE]
  /\ endings' = [endings EXCEPT ![s] = Append(@, how)]
  /\ active_sessions' = IF how = "failed" THEN active_sessions \ {s} ELSE active_sessions

\* complete and fail: the first of them counts.  The error callback of the clients
\* removes the session from the handler; nothing removes one that is complete.
End(s, how) ==
  IF active[s]
    THEN /\ active' = [active EXCEPT ![s] = FALSE]
         /\ endings' = [endings EXCEPT ![s] = Append(@, how)]
         /\ active_sessions' = IF how = "failed" THEN active_sessions \ {s}
                                                 ELSE active_sessions
    ELSE UNCHANGED <<active, endings, active_sessions>>

\* extract_events: what is before each empty line, and the rest.  A text without an
\* event is skipped.
Scan(found, x) ==
  LET part == Append(found.part, x)
      n == Len(part)
  IN  IF n < 2 \/ part[n] # LF \/ part[n - 1] # LF
        THEN [part |-> part, events |-> found.events]
        ELSE [part |-> <<>>,
              events |-> IF \E i \in 1..(n - 2) : part[i] \in Event
                           THEN Append(found.events, SubSeq(part, 1, n - 2))
                           ELSE found.events]

Extract(symbols) ==
  LET found[n \in 0..Len(symbols)] ==
        IF n = 0 THEN [part |-> <<>>, events |-> <<>>] ELSE Scan(found[n - 1], symbols[n])
  IN  found[Len(symbols)]

\* parse_chunk.  Two events run together have no content, and the type that is named
\* last, at the beginning of a line; the default type is a token's.
Parsed(text) ==
  LET events == {i \in DOMAIN text : text[i] \in Event}
      first == {i \in events : i = 1 \/ text[i - 1] = LF}
      last == CHOOSE i \in first : \A j \in first : j <= i
  IN  IF first = {} THEN [kind |-> "token"]
      ELSE IF events = {last} THEN text[last]
      ELSE [kind |-> text[last].kind]

ParseMutantForgets(s, c, chunk) ==
  LET found == Extract(chunk)
  IN  /\ batch' = [batch EXCEPT ![c] = [i \in DOMAIN found.events |-> Parsed(found.events[i])]]
      /\ event_buffer' = [event_buffer EXCEPT ![s] = found.part]

Parse(s, c, chunk) ==
  LET found == Extract(event_buffer[s] \o chunk)
  IN  /\ batch' = [batch EXCEPT ![c] = [i \in DOMAIN found.events |-> Parsed(found.events[i])]]
      /\ event_buffer' = [event_buffer EXCEPT ![s] = found.part]

\* A chunk arrives: the HttpClient calls process_data with it, unless another request
\* has it written to its own body.
Receive(c) ==
  /\ pc[c] = "transfer" /\ batch[c] = <<>>
  /\ \E n \in 1..Len(wire[c]) :
       /\ wire' = [wire EXCEPT ![c] = SubSeq(@, n + 1, Len(@))]
       /\ \/ /\ write_function = "callback"
             /\ into' = [into EXCEPT ![c] = streaming_callback]
             /\ IF active[streaming_callback]
                  THEN Parse(streaming_callback, c, SubSeq(wire[c], 1, n))
                  ELSE UNCHANGED <<batch, event_buffer>>
          \/ write_function = "body" /\ UNCHANGED <<into, batch, event_buffer>>
  /\ UNCHANGED <<rate, http, pc, active_sessions, active, heard, endings, sent, crossed>>

Hear(c, e) == heard' = [heard EXCEPT ![into[c]] = Append(@, e)]
Rest(c) == batch' = [batch EXCEPT ![c] = Tail(@)]
Break(c) == batch' = [batch EXCEPT ![c] = <<>>]

\* One round of process_events.
Process(c) ==
  /\ batch[c] # <<>>
  /\ LET e == Head(batch[c])
     IN  \/ /\ e.kind = "token"
            /\ Hear(c, e) /\ Rest(c)
            /\ UNCHANGED <<active_sessions, active, endings>>
         \/ e.kind = "completion" /\ End(into[c], "completed") /\ Break(c) /\ UNCHANGED heard
         \/ e.kind = "error" /\ End(into[c], "failed") /\ Break(c) /\ UNCHANGED heard
  /\ UNCHANGED <<rate, http, pc, into, event_buffer, service, crossed>>

-----------------------------------------------------------------------------
(* create_streaming_completion                                             *)

\* create_session, under a new id, and start.
Create(c) ==
  /\ Goto(c, "create", "check")
  /\ active_sessions' = active_sessions \cup {c}
  /\ active' = [active EXCEPT ![c] = TRUE]
  /\ UNCHANGED <<rate, http, batch, into, event_buffer, heard, endings, service, crossed>>

CheckRate(c) ==
  /\ \/ Pass /\ Goto(c, "check", "arm") /\ UNCHANGED <<active_sessions, active, endings>>
     \/ Refuse /\ Goto(c, "check", "nullopt") /\ End(c, "failed")
  /\ UNCHANGED <<now, others, http, batch, into, event_buffer, heard, service, crossed>>

SetCallback(c) ==
  /\ Goto(c, "arm", "perform")
  /\ streaming_callback' = c
  /\ crossed' = IF InHttp = {} /\ other # "transfer" THEN crossed
                                                     ELSE crossed \cup InHttp \cup {c}
  /\ UNCHANGED <<rate, transferring, other, write_function, batch, into, session, service>>

\* report_error locks error_mutex_ and calls functions that lock it again: the call
\* of handle_api_error does not return.
ReportError(c, from) == Goto(c, from, "report_error")

\* post_streaming
Perform(c) ==
  /\ write_function' = "callback"
  /\ \/ ~HandleBusy /\ transferring' = c /\ Goto(c, "perform", "transfer")
     \/ HandleBusy /\ ReportError(c, "perform") /\ UNCHANGED transferring
  /\ UNCHANGED <<rate, streaming_callback, other, batch, into, session, service, crossed>>

Send(c) ==
  /\ pc[c] = "transfer"
  /\ Len(sent[c]) < MaxEvents
  /\ \E kind \in Kinds :
       LET e == [kind |-> kind, to |-> c, number |-> Len(sent[c]) + 1]
       IN  /\ sent' = [sent EXCEPT ![c] = Append(@, e)]
           /\ wire' = [wire EXCEPT ![c] = @ \o <<e>> \o LineEnd \o LineEnd]
  /\ UNCHANGED <<rate, http, pc, batch, into, session, crossed>>

TransferEnds(c) ==
  /\ Goto(c, "transfer", "finish")
  /\ batch[c] = <<>> /\ wire[c] = <<>>
  /\ transferring' = NoCaller
  /\ UNCHANGED <<rate, streaming_callback, other, write_function, batch, into, session,
                 service, crossed>>

\* The connection breaks, or the status is an error.
TransferFails(c) ==
  /\ ReportError(c, "transfer")
  /\ batch[c] = <<>>
  /\ transferring' = NoCaller
  /\ UNCHANGED <<rate, streaming_callback, other, write_function, batch, into, session,
                 service, crossed>>

\* A session that the stream has ended is returned as it is, another is completed.
Finish(c) ==
  /\ Goto(c, "finish", "session")
  /\ End(c, "completed")
  /\ UNCHANGED <<rate, http, batch, into, event_buffer, heard, service, crossed>>

-----------------------------------------------------------------------------
CallerStep(c) ==
  \/ Create(c) \/ CheckRate(c) \/ SetCallback(c) \/ Perform(c)
  \/ Receive(c) \/ Process(c) \/ TransferEnds(c) \/ Finish(c)

Next ==
  \/ Tick \/ OtherRequest \/ OtherPost \/ OtherReturns
  \/ \E c \in Callers : CallerStep(c) \/ Send(c) \/ TransferFails(c)

Spec == Init /\ [][Next]_vars
FairSpec == Spec /\ \A c \in Callers : WF_vars(CallerStep(c))

-----------------------------------------------------------------------------
(* Properties                                                              *)

TypeOK ==
  /\ now \in 0..MaxTime /\ others \in 0..MaxOthers
  /\ request_timestamps \in Seq(0..MaxTime) /\ passed \in Seq(0..MaxTime)
  /\ Len(request_timestamps) <= MaxRequests
  /\ streaming_callback \in Callers \cup {NoCaller}
  /\ transferring \in Callers \cup {NoCaller}
  /\ other \in {"none", "post", "transfer"} /\ write_function \in {"callback", "body"}
  /\ pc \in [Callers -> {"create", "check", "arm", "perform", "transfer", "finish",
                         "report_error", "session", "nullopt"}]
  /\ batch \in [Callers -> Seq(Event \cup [kind : Kinds])]
  /\ into \in [Callers -> Callers \cup {NoCaller}]
  /\ active_sessions \subseteq Callers
  /\ active \in [Callers -> BOOLEAN]
  /\ event_buffer \in [Callers -> Seq(Symbols)]
  /\ heard \in [Callers -> Seq(Event \cup [kind : Kinds])]
  /\ endings \in [Callers -> Seq({"completed", "failed"})]
  /\ sent \in [Callers -> Seq(Event)] /\ wire \in [Callers -> Seq(Symbols)]
  /\ crossed \subseteq Callers

\* A session that was started ends once, completed or failed, however its stream,
\* its call and a stranger's stream meet; and a call that returns has ended it.
OneEnding ==
  \A c \in Callers :
    /\ Len(endings[c]) <= 1
    /\ active[c] => endings[c] = <<>>
    /\ pc[c] \in {"session", "nullopt"} => endings[c] # <<>>

\* The events of the answer that have arrived, up to the first that ends the session.
Arrived(c) ==
  SubSeq(sent[c], 1, Len(sent[c]) - (Len(wire[c]) + 2 * Len(LineEnd)) \div (1 + 2 * Len(LineEnd)))

IsToken(e) == e.kind = "token"
Tokens(events) ==
  LET n == CHOOSE n \in 0..Len(events) :
             /\ \A i \in 1..n : IsToken(events[i])
             /\ n < Len(events) => ~IsToken(events[n + 1])
  IN  SubSeq(events, 1, n)

\* Wherever the chunks are cut, a call that has the HttpClient for itself hears every
\* token of its answer, once and in order, and nothing after the end of it.
StreamsAsSent ==
  \A c \in Callers \ crossed : batch[c] = <<>> => heard[c] = Tokens(Arrived(c))

\* max_requests_per_minute_: in no window more requests than that are let through.
WithinRate ==
  \A t \in 0..MaxTime :
    Cardinality({i \in DOMAIN passed : passed[i] \in (t - Window)..t}) <= MaxRequests

\* "Streaming session or nullopt on error"
ErrorIsNoSession == \A c \in Callers : pc[c] = "session" => endings[c] # <<"failed">>

\* "real-time processing" of the request's own answer
HearsOwnAnswer ==
  \A c \in Callers : \A i \in DOMAIN heard[c] :
    heard[c][i] \in Event => heard[c][i].to = c

\* "Get active session count": a session whose call has returned is not active.
EndedIsRemoved == \A c \in active_sessions : pc[c] \notin {"session", "nullopt"}

\* A call that fails returns.
FailureReturns == \A c \in Callers : pc[c] = "report_error" ~> pc[c] = "nullopt"
=============================================================================
