-------------------------------- MODULE Logger --------------------------------
(***************************************************************************)
(* Log messages on their way to the log file, the console or syslog.  A    *)
(* message is put together in the stream of its Logger, which threads may  *)
(* share without a lock, and its Flusher hands the line over and empties   *)
(* the stream.  What a message says is left out: it has a header and some  *)
(* texts.  Of the race on a shared stream the model has two effects: texts *)
(* end up there in any order, and they may be lost; that it may also break *)
(* the stream or the process is left out.                                  *)
(***************************************************************************)
EXTENDS Sequences, FiniteSets, Naturals

CONSTANTS
  Threads,
  LoggerOf,     \* the Logger each thread logs through
  NoThread,
  Level,        \* RIALTO_DEBUG
  Severities,   \* severities of messages
  MaxMessages,  \* bound: messages of all threads together
  MaxTexts      \* bound: texts of a message after its header

ASSUME LoggerAssumption ==
  /\ NoThread \notin Threads
  /\ Level \in 0..5 /\ Severities \subseteq 0..5
  /\ MaxMessages \in Nat /\ MaxTexts \in Nat

VARIABLES
  sink,    \* where lines go, set up by the environment of the process
  stream,  \* m_stream of every Logger
  output,  \* what has arrived at the sink
  mutex,   \* LogFile::m_mutex
  doing,   \* where each thread is with its message
  begun    \* the number of messages so far

logVars == <<sink, stream, output, mutex, doing, begun>>

Loggers == {LoggerOf[t] : t \in Threads}

(* The pieces of message n, of thread t; text 0 is its header.                *)
Piece(t, n, severity, text) == [thread |-> t, n |-> n, severity |-> severity, text |-> text]
NewLine == Piece(NoThread, 0, 0, 0)

Idle == [at |-> "idle", n |-> 0, severity |-> 0, texts |-> 0, line |-> <<>>]
At(t, place) == doing[t].at = place
Goto(t, place) == doing' = [doing EXCEPT ![t].at = place]

Init ==
  /\ sink \in {"file", "console", "syslog"}
  /\ stream = [l \in Loggers |-> <<>>]
  /\ output = <<>> /\ mutex = NoThread /\ begun = 0
  /\ doing = [t \in Threads |-> Idle]

-------------------------------------------------------------------------------
(* m_stream << piece.  While others use the stream, the piece may get lost.   *)
Put(t, piece) ==
  LET l == LoggerOf[t] IN
  \/ stream' = [stream EXCEPT ![l] = Append(@, piece)]
  \/ (\E u \in Threads \ {t} : LoggerOf[u] = l /\ ~At(u, "idle")) /\ UNCHANGED stream

(* Logger::operator<< makes a Flusher, and that the header.                   *)
Begin(t, severity) ==
  /\ At(t, "idle") /\ begun < MaxMessages
  /\ begun' = begun + 1
  /\ doing' = [doing EXCEPT ![t] = [at |-> "building", n |-> begun', severity |-> severity,
                                    texts |-> 0, line |-> <<>>]]
  /\ Put(t, Piece(t, begun', severity, 0))
  /\ UNCHANGED <<sink, output, mutex>>

(* Flusher::operator<<                                                        *)
AppendText(t) ==
  /\ At(t, "building") /\ doing[t].texts < MaxTexts
  /\ doing' = [doing EXCEPT ![t].texts = @ + 1]
  /\ Put(t, Piece(t, doing[t].n, doing[t].severity, doing[t].texts + 1))
  /\ UNCHANGED <<sink, output, mutex, begun>>

(* A severity is the more urgent the lower it is.                             *)
IsLogged(severity) == Level >= severity

(* ~Flusher(): the line is copied if it is to be logged at all.               *)
EndMessage(t) ==
  /\ At(t, "building")
  /\ IF IsLogged(doing[t].severity)
       THEN doing' = [doing EXCEPT ![t].at = "write", ![t].line = stream[LoggerOf[t]]]
       ELSE Goto(t, "clear")
  /\ UNCHANGED <<sink, stream, output, mutex, begun>>

(* A mistake for a run that must fail: LogFile::write does not lock.          *)
WriteUnlocked(t) ==
  /\ At(t, "write")
  /\ output' = output \o doing[t].line
  /\ Goto(t, "newline")
  /\ UNCHANGED <<sink, stream, mutex, begun>>

(* The line, to the file under its mutex, to the console without.             *)
Write(t) ==
  /\ At(t, "write") /\ sink # "syslog"
  /\ IF sink = "file" THEN mutex = NoThread /\ mutex' = t ELSE UNCHANGED mutex
  /\ output' = output \o doing[t].line
  /\ Goto(t, "newline")
  /\ UNCHANGED <<sink, stream, begun>>

EndLine(t) ==
  /\ At(t, "newline")
  /\ output' = Append(output, NewLine)
  /\ mutex' = IF mutex = t THEN NoThread ELSE mutex
  /\ Goto(t, "clear")
  /\ UNCHANGED <<sink, stream, begun>>

(* syslog() takes the line as a whole.                                        *)
Syslog(t) ==
  /\ At(t, "write") /\ sink = "syslog"
  /\ output' = Append(output \o doing[t].line, NewLine)
  /\ Goto(t, "clear")
  /\ UNCHANGED <<sink, stream, mutex, begun>>

(* A mistake for a run that must fail: only who has logged clears.            *)
ClearIfLogged(t) ==
  /\ At(t, "clear")
  /\ stream' = IF IsLogged(doing[t].severity) THEN [stream EXCEPT ![LoggerOf[t]] = <<>>] ELSE stream
  /\ doing' = [doing EXCEPT ![t] = Idle]
  /\ UNCHANGED <<sink, output, mutex, begun>>

(* The end of ~Flusher(): the stream is emptied, whoever else is using it.    *)
Clear(t) ==
  /\ At(t, "clear")
  /\ stream' = [stream EXCEPT ![LoggerOf[t]] = <<>>]
  /\ doing' = [doing EXCEPT ![t] = Idle]
  /\ UNCHANGED <<sink, output, mutex, begun>>

Next ==
  \E t \in Threads :
    \/ \E severity \in Severities : Begin(t, severity)
    \/ AppendText(t) \/ EndMessage(t)
    \/ Write(t) \/ EndLine(t) \/ Syslog(t)
    \/ Clear(t)

Spec == Init /\ [][Next]_logVars

-------------------------------------------------------------------------------
Alone(t) == \A u \in Threads \ {t} : LoggerOf[u] # LoggerOf[t]

(* In the log file and in syslog, the message of a thread that has its Logger *)
(* to itself stands on a line of its own: from its header on and in order,    *)
(* with nothing of another message before, between or behind, whatever other  *)
(* threads write at the time.  On the console that is not so.                 *)
OwnLine ==
  sink # "console" =>
    \A i \in 1..Len(output) :
      output[i] # NewLine /\ Alone(output[i].thread) =>
        LET piece == output[i] IN
        /\ IF piece.text = 0
             THEN i = 1 \/ output[i - 1] = NewLine
             ELSE i > 1 /\ output[i - 1] = [piece EXCEPT !.text = @ - 1]
        /\ i < Len(output) =>
             output[i + 1] \in {NewLine, [piece EXCEPT !.text = @ + 1]}

(* Nothing above the level is ever logged for a thread that has its Logger to *)
(* itself, also not at the front of a later message that is below it.         *)
LevelHolds ==
  \A i \in 1..Len(output) :
    output[i] # NewLine /\ Alone(output[i].thread) => IsLogged(output[i].severity)

(* A stream is empty when nobody is logging through it: what threads that     *)
(* share a Logger mix up does not get into messages they log later.           *)
NothingStays ==
  \A l \in Loggers :
    (\A t \in Threads : LoggerOf[t] = l => At(t, "idle")) => stream[l] = <<>>
===============================================================================
