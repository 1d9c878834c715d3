------------------------------ MODULE LiveProxy ------------------------------
(***************************************************************************)
(* The voice proxy of live.py: one talk, carried over as many connections  *)
(* to the provider as needed.  Three coroutines share state['gemini'] (or  *)
(* state['conn']), the queue `pending' and the page being taught:          *)
(*   - `up' relays what the student says and the pages they turn to,       *)
(*   - `line' is the task that runs one connection, from its setup on,     *)
(*   - the loop opens the next connection when one is over.                *)
(* A step lies between two awaits.  proxy_gemini and proxy_openai have the *)
(* same form; where they differ the model asks `provider'.                 *)
(***************************************************************************)
EXTENDS Naturals, Sequences

CONSTANTS
    Providers,       \* values of LIVE_PROVIDER
    Pages,           \* page numbers of the course
    None,            \* what is said that is not about a page
    MaxPending,      \* maxlen of pending: 400
    MaxFailures,     \* MAX_RECONNECT_FAILURES
    MaxInputs,       \* bound: messages of the student
    MaxConnections   \* bound: connections the provider accepts

ASSUME LimitAssumption ==
    /\ MaxPending \in Nat \ {0}
    /\ MaxFailures \in Nat \ {0}
    /\ MaxInputs \in Nat
    /\ MaxConnections \in Nat
ASSUME ProviderAssumption == Providers \subseteq {"gemini", "openai"}
ASSUME NoneAssumption == None \notin Pages

VARIABLES
    provider,
    first,     \* the page the talk was opened on
    current,   \* current['page']
    left,      \* the browser is gone
    up, outs,  \* the relay to the provider, what is left of the message it relays
    pending,   \* what is said while nobody takes it
    missed,    \* observer: a page turn came too early, or was dropped by the full queue
    loop,      \* the proxy's loop: "waiting" for up or line, or "ended"
    failures, resuming, handle,
    line,      \* the connection's task
    ready,     \* its result
    alive,     \* the connection is up
    taking,    \* it is the one that takes input
    tutor,     \* the page this connection was told about last
    greeted,   \* how often the opening turn was sent
    inputs, connections

student == <<current, left, inputs>>
relay   == <<up, outs>>
queue   == <<pending, missed>>
retry   == <<loop, failures, resuming>>
conn    == <<line, ready, alive, taking, tutor, greeted, handle, connections>>
fixed   == <<provider, first>>
vars    == <<fixed, student, relay, queue, retry, conn>>

Init ==
    /\ provider \in Providers
    /\ first \in Pages
    /\ current = first
    /\ left = FALSE
    /\ up = "reading" /\ outs = <<>>
    /\ pending = <<>> /\ missed = FALSE
    /\ loop = "waiting" /\ failures = 0 /\ resuming = FALSE /\ handle = FALSE
    /\ line = "connecting" /\ ready = FALSE /\ alive = FALSE /\ taking = FALSE
    /\ tutor = None
    /\ greeted = 0
    /\ inputs = 0 /\ connections = 0

-----------------------------------------------------------------------------
(* The student and the relay of what they send *)

Reads(message) ==
    /\ up = "reading" /\ ~left
    /\ inputs < MaxInputs
    /\ inputs' = inputs + 1
    /\ outs' = message
    /\ up' = "relaying"
    /\ UNCHANGED <<left, pending, retry, conn, fixed>>

Speak == Reads(<<None>>) /\ UNCHANGED <<current, missed>>

\* A page turn is one message to Gemini; OpenAI is told to stop the reply that is
\* running, given the page, and asked for a response.
PageTurn(p) == IF provider = "openai" THEN <<None, p, None>> ELSE <<p>>

\* The first connection does not take input yet.
Early == ~resuming /\ ~taking /\ line # "over"

\* turned_page(): the page taught changes as soon as the message is read.
TurnPage(p) ==
    /\ p # current
    /\ current' = p
    /\ missed' = (missed \/ Early)
    /\ Reads(PageTurn(p))

Leave ==
    /\ ~left
    /\ left' = TRUE
    /\ UNCHANGED <<current, inputs, relay, queue, retry, conn, fixed>>

\* client_messages ends.
StopReading ==
    /\ up = "reading" /\ left
    /\ up' = "over"
    /\ UNCHANGED <<student, outs, queue, retry, conn, fixed>>

\* pending.append(): a full deque drops its oldest message.
Keep(out) ==
    LET full == Len(pending) = MaxPending IN
    /\ pending' = Append(IF full THEN Tail(pending) ELSE pending, out)
    /\ missed' = (missed \/ (full /\ Head(pending) # None))

Relayed ==
    /\ outs' = Tail(outs)
    /\ up' = IF Len(outs) = 1 THEN "reading" ELSE "relaying"

Hold ==
    /\ up = "relaying" /\ ~taking
    /\ Keep(Head(outs))
    /\ Relayed
    /\ UNCHANGED <<student, retry, conn, fixed>>

Send ==
    /\ up = "relaying" /\ taking
    /\ up' = "sending"
    /\ UNCHANGED <<student, outs, queue, retry, conn, fixed>>

Hears(out) == tutor' = IF out = None THEN tutor ELSE out

Sent ==
    /\ up = "sending" /\ alive
    /\ Hears(Head(outs))
    /\ Relayed
    /\ UNCHANGED <<student, queue, retry, line, ready, alive, taking, greeted, handle,
                   connections, fixed>>

\* ConnectionClosed
SendBroken ==
    /\ up = "sending" /\ ~alive
    /\ Keep(Head(outs))
    /\ Relayed
    /\ UNCHANGED <<student, retry, conn, fixed>>

-----------------------------------------------------------------------------
(* One connection *)

\* finally: state['gemini'] = None, and the socket is closed.
LineOver ==
    /\ line' = "over"
    /\ taking' = FALSE
    /\ alive' = FALSE

\* Mutated form: the setup names the page the talk was opened on.
TaughtFirst == first

\* The page named in the setup.
Taught == current

\* The connection is made and the setup is sent.  A send that the last connection
\* broke has raised by then: its exception needs no round trip.
Connect ==
    /\ line = "connecting"
    /\ up # "sending"
    /\ connections < MaxConnections
    /\ connections' = connections + 1
    /\ alive' = TRUE
    /\ tutor' = Taught
    /\ line' = "setup"
    /\ UNCHANGED <<student, relay, queue, retry, ready, taking, greeted, handle, fixed>>

\* The token, the connection or the handshake is refused.
ConnectFails ==
    /\ line = "connecting"
    /\ LineOver
    /\ UNCHANGED <<student, relay, queue, retry, ready, tutor, greeted, handle, connections, fixed>>

\* setupComplete, or the first session.updated
SetupComplete ==
    /\ line = "setup" /\ alive
    /\ ready' = TRUE
    /\ \/ /\ resuming
          /\ line' = "flushing"
          /\ UNCHANGED queue
       \/ /\ ~resuming
          /\ line' = "greeting"
          /\ pending' = <<>>
          /\ UNCHANGED missed
    /\ UNCHANGED <<student, relay, retry, alive, taking, tutor, greeted, handle, connections, fixed>>

\* pending.popleft() and the send: a message popped for a send that fails is gone.
Flush ==
    /\ line = "flushing" /\ pending # <<>>
    /\ pending' = Tail(pending)
    /\ \/ /\ alive
          /\ Hears(Head(pending))
          /\ UNCHANGED <<line, alive, taking>>
       \/ /\ ~alive
          /\ LineOver
          /\ UNCHANGED tutor
    /\ UNCHANGED <<student, relay, missed, retry, ready, greeted, handle, connections, fixed>>

Opens ==
    /\ line' = "open"
    /\ taking' = TRUE

Flushed ==
    /\ line = "flushing" /\ pending = <<>>
    /\ Opens
    /\ UNCHANGED <<student, relay, queue, retry, ready, alive, tutor, greeted, handle,
                   connections, fixed>>

\* The browser is told that the tutor is ready.
TellReady ==
    /\ line = "greeting"
    /\ line' = "kickoff"
    /\ UNCHANGED <<student, relay, queue, retry, ready, alive, taking, tutor, greeted, handle,
                   connections, fixed>>

\* The opening turn, about the page the talk was opened on.
Kickoff ==
    /\ line = "kickoff"
    /\ \/ /\ alive
          /\ greeted' = greeted + 1
          /\ tutor' = first
          /\ Opens
          /\ UNCHANGED alive
       \/ /\ ~alive
          /\ LineOver
          /\ UNCHANGED <<greeted, tutor>>
    /\ UNCHANGED <<student, relay, queue, retry, ready, handle, connections, fixed>>

\* sessionResumptionUpdate
GetHandle ==
    /\ provider = "gemini"
    /\ line = "open" /\ alive
    /\ ~handle
    /\ handle' = TRUE
    /\ UNCHANGED <<student, relay, queue, retry, line, ready, alive, taking, tutor, greeted,
                   connections, fixed>>

\* Gemini is about to close the connection: it is left at once.
GoAway ==
    /\ provider = "gemini"
    /\ line = "open" /\ alive
    /\ LineOver
    /\ UNCHANGED <<student, relay, queue, retry, ready, tutor, greeted, handle, connections, fixed>>

\* The connection breaks, the provider closes it, or a ping is not answered ...
Drop ==
    /\ alive
    /\ alive' = FALSE
    /\ UNCHANGED <<student, relay, queue, retry, line, ready, taking, tutor, greeted, handle,
                   connections, fixed>>

\* ... and the task that waits for its next message learns it.
Notice ==
    /\ line \in {"setup", "open"} /\ ~alive
    /\ LineOver
    /\ UNCHANGED <<student, relay, queue, retry, ready, tutor, greeted, handle, connections, fixed>>

\* What the tutor says finds no browser: the exception ends the task, and the talk.
NobodyListens ==
    /\ left \/ loop = "ended"
    /\ line \in {"greeting", "open"} /\ alive
    /\ LineOver
    /\ loop' = "ended"
    /\ up' = "over"
    /\ UNCHANGED <<student, outs, queue, failures, resuming, ready, tutor, greeted, handle,
                   connections, fixed>>

-----------------------------------------------------------------------------
(* The loop *)

\* The student left: the connection is cancelled.
HangUp ==
    /\ loop = "waiting" /\ up = "over"
    /\ loop' = "ended"
    /\ LineOver
    /\ UNCHANGED <<student, relay, queue, failures, resuming, ready, tutor, greeted, handle,
                   connections, fixed>>

\* Mutated form: a connection that lasted counts as healthy, ready or not.
FailuresPatient(lasted) == IF lasted THEN 0 ELSE failures + 1

\* lasted: it ended after MIN_HEALTHY_SECONDS or later.
Failures(lasted) == IF ready /\ lasted THEN 0 ELSE failures + 1

Hopeless(count) == (provider = "gemini" /\ ~handle) \/ count >= MaxFailures

\* A connection is over: resume on the next one, or give up.
NextConnection ==
    /\ loop = "waiting" /\ line = "over" /\ up # "over"
    /\ \E lasted \in BOOLEAN : failures' = Failures(lasted)
    /\ \/ /\ Hopeless(failures')
          /\ loop' = "ended"
          /\ up' = "over"
          /\ UNCHANGED <<resuming, line, ready>>
       \/ /\ ~Hopeless(failures')
          /\ resuming' = TRUE
          /\ line' = "connecting"
          /\ ready' = FALSE
          /\ UNCHANGED <<loop, up>>
    /\ UNCHANGED <<student, outs, queue, alive, taking, tutor, greeted, handle, connections, fixed>>

\* Credit or time is up: live_ws cancels the proxy.  It waits in asyncio.wait(), which
\* does not cancel what it waits for: the relay is cancelled, the connection is not.
Cut ==
    /\ loop = "waiting"
    /\ loop' = "ended"
    /\ up' = "over"
    /\ UNCHANGED <<student, outs, queue, failures, resuming, conn, fixed>>

-----------------------------------------------------------------------------
StudentStep == Speak \/ (\E p \in Pages : TurnPage(p)) \/ Leave

RelayStep == StopReading \/ Hold \/ Send \/ Sent \/ SendBroken

LineStep ==
    \/ Connect \/ ConnectFails \/ SetupComplete \/ Flush \/ Flushed \/ TellReady \/ Kickoff
    \/ GetHandle \/ GoAway \/ Drop \/ Notice \/ NobodyListens

LoopStep == HangUp \/ NextConnection \/ Cut

\* A talk may be over for good: the coroutines stop.
Over == loop = "ended" /\ ~alive /\ left /\ line = "over" /\ UNCHANGED vars

Next == StudentStep \/ RelayStep \/ LineStep \/ LoopStep \/ Over

Spec == Init /\ [][Next]_vars

\* The event loop runs what can run; a connection attempt succeeds or fails (open_timeout),
\* and a setup is answered or the connection breaks (ping_interval).
Fairness ==
    /\ WF_vars(RelayStep)
    /\ WF_vars(Connect \/ ConnectFails)
    /\ WF_vars(SetupComplete \/ Notice)
    /\ WF_vars(Flush \/ Flushed \/ TellReady \/ Kickoff)
    /\ WF_vars(HangUp) /\ WF_vars(NextConnection)

FairSpec == Spec /\ Fairness

-----------------------------------------------------------------------------
(* Properties *)

TypeOK ==
    /\ provider \in Providers
    /\ first \in Pages /\ current \in Pages
    /\ left \in BOOLEAN
    /\ up \in {"reading", "relaying", "sending", "over"}
    /\ outs \in Seq(Pages \cup {None})
    /\ up \in {"relaying", "sending"} => outs # <<>>
    /\ pending \in Seq(Pages \cup {None})
    /\ Len(pending) <= MaxPending
    /\ missed \in BOOLEAN
    /\ loop \in {"waiting", "ended"}
    /\ failures \in 0..MaxFailures
    /\ resuming \in BOOLEAN /\ handle \in BOOLEAN
    /\ line \in {"connecting", "setup", "flushing", "greeting", "kickoff", "open", "over"}
    /\ ready \in BOOLEAN /\ alive \in BOOLEAN /\ taking \in BOOLEAN
    /\ tutor \in Pages \cup {None}
    /\ greeted \in Nat
    /\ inputs \in 0..MaxInputs
    /\ connections \in 0..MaxConnections

\* main.py: "The tutor sees the page picture, and follows the student when they turn the
\* page": when a connection takes input and nothing is on its way, the page it was told
\* about last is the student's, over reconnects, failed sends and failed flushes.  Left out
\* are talks in which the full queue dropped a turn, and those in which the page was turned
\* before the tutor begins: the message is cleared, and the opening turn names the page the
\* talk was opened on.
TutorFollows ==
    taking /\ alive /\ up = "reading" /\ ~missed => tutor = current

\* The tutor speaks first and introduces itself once (live.py kickoff): Gemini takes
\* nothing from the student before the opening turn, and no resumed connection greets again.
GreetedFirst ==
    /\ greeted <= 1
    /\ provider = "gemini" /\ (taking \/ resuming) => greeted = 1

\* A talk is not left hanging: when the student has left it ends, and while they are there
\* it gets a connection that listens, or ends, however connections fail.
TalkGoesOnOrEnds ==
    (left \/ line # "open") ~> (loop = "ended" \/ (line = "open" /\ ~left))
=============================================================================
