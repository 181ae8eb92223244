------------------------------ MODULE LoggerProofs ------------------------------
(***************************************************************************)
(* Theorems about Logger, for any threads, any Loggers and any level.      *)
(***************************************************************************)
EXTENDS Logger, TLAPS

Pieces == [thread : Threads, n : Nat, severity : 0..5, text : Nat]

Types ==
  /\ begun \in Nat
  /\ stream \in [Loggers -> Seq(Pieces)]
  /\ output \in Seq(Pieces \cup {NewLine})
  /\ doing \in [Threads -> [at : {"idle", "building", "write", "newline", "clear"}, n : Nat,
                            severity : 0..5, texts : Nat, line : Seq(Pieces)]]

(* A stream holds something only while a thread is at it.                     *)
InUse ==
  \A l \in Loggers :
    stream[l] # <<>> => \E t \in Threads : LoggerOf[t] = l /\ ~At(t, "idle")

(* What comes from a thread that has its Logger to itself.                    *)
From(t, piece) == piece.thread = t /\ Alone(t)

(* It is in the stream of that Logger only, and there of the given severity.  *)
InOrder(streams, severityOf) ==
  \A t, u \in Threads : \A i \in 1..Len(streams[LoggerOf[u]]) :
    From(t, streams[LoggerOf[u]][i]) =>
      u = t /\ streams[LoggerOf[u]][i].severity = severityOf[t]

SeverityOf == [t \in Threads |-> doing[t].severity]

(* In a line about to be written it is below the level.                       *)
LinesBelowLevel ==
  \A t, u \in Threads : \A i \in 1..Len(doing[u].line) :
    From(t, doing[u].line[i]) /\ At(u, "write") => IsLogged(doing[u].line[i].severity)

OwnPieces == InOrder(stream, SeverityOf) /\ LinesBelowLevel

Inv == Types /\ InUse /\ OwnPieces /\ LevelHolds

LEMMA PieceType ==
  ASSUME NEW t \in Threads, NEW n \in Nat, NEW severity \in 0..5, NEW text \in Nat
  PROVE  Piece(t, n, severity, text) \in Pieces
  BY DEF Piece, Pieces

LEMMA NewLineIsNone == NewLine \notin Pieces
  BY LoggerAssumption DEF NewLine, Piece, Pieces

LEMMA InitInv == Init => Inv
<1> SUFFICES ASSUME Init PROVE Inv
  OBVIOUS
<1>1. Types
  BY DEF Init, Types, Idle
<1>2. InUse
  BY DEF Init, InUse
<1>3. OwnPieces
  BY DEF Init, OwnPieces, InOrder, LinesBelowLevel, Loggers, Idle
<1>4. LevelHolds
  BY DEF Init, LevelHolds
<1> QED
  BY <1>1, <1>2, <1>3, <1>4 DEF Inv

(* A piece put into a stream ends up at its end, or nowhere.                  *)
LEMMA PutEffect ==
  ASSUME Types, NEW v \in Threads, NEW piece \in Pieces, Put(v, piece)
  PROVE  /\ stream' \in [Loggers -> Seq(Pieces)]
         /\ \A l \in Loggers :
              \/ stream'[l] = stream[l]
              \/ l = LoggerOf[v] /\ stream'[l] = Append(stream[l], piece)
<1>1. LoggerOf[v] \in Loggers
  BY DEF Loggers
<1>2. CASE stream' = [stream EXCEPT ![LoggerOf[v]] = Append(@, piece)]
  <2>1. stream[LoggerOf[v]] \in Seq(Pieces) /\ stream \in [Loggers -> Seq(Pieces)]
    BY <1>1 DEF Types
  <2>2. Append(stream[LoggerOf[v]], piece) \in Seq(Pieces)
    BY <2>1
  <2> QED
    BY <1>1, <1>2, <2>1, <2>2
<1>3. CASE UNCHANGED stream
  BY <1>3 DEF Types
<1> QED
  BY <1>2, <1>3 DEF Put

(* An own piece put into a stream keeps the streams in order.                 *)
LEMMA PutOwn ==
  ASSUME Types, NEW v \in Threads, NEW piece \in Pieces, Put(v, piece), piece.thread = v,
         NEW severityOf, severityOf[v] = piece.severity, InOrder(stream, severityOf)
  PROVE  InOrder(stream', severityOf)
<1> SUFFICES ASSUME NEW t \in Threads, NEW u \in Threads,
                    NEW i \in 1..Len(stream'[LoggerOf[u]]),
                    From(t, stream'[LoggerOf[u]][i])
             PROVE  u = t /\ stream'[LoggerOf[u]][i].severity = severityOf[t]
  BY DEF InOrder
<1> DEFINE l == LoggerOf[u]
<1>1. l \in Loggers /\ stream[l] \in Seq(Pieces)
  BY DEF Loggers, Types
<1>2. CASE stream'[l] = stream[l]
  BY <1>2 DEF InOrder
<1>3. CASE l = LoggerOf[v] /\ stream'[l] = Append(stream[l], piece)
  <2>1. CASE i \in 1..Len(stream[l])
    BY <1>1, <1>3, <2>1 DEF InOrder
  <2>2. CASE i = Len(stream[l]) + 1
    <3>1. stream'[l][i] = piece
      BY <1>1, <1>3, <2>2
    <3> QED
      BY <1>3, <3>1 DEF From, Alone
  <2> QED
    BY <1>1, <1>3, <2>1, <2>2
<1> QED
  BY <1>1, <1>2, <1>3, PutEffect

(* What a line adds to the output is below the level.                         *)
LEMMA BelowLevel ==
  ASSUME Inv, NEW v \in Threads, At(v, "write")
  PROVE  \A i \in 1..Len(output \o doing[v].line) :
           LET piece == (output \o doing[v].line)[i] IN
           piece # NewLine /\ Alone(piece.thread) => IsLogged(piece.severity)
<1> DEFINE after == output \o doing[v].line
<1> SUFFICES ASSUME NEW i \in 1..Len(after), after[i] # NewLine, Alone(after[i].thread)
             PROVE  IsLogged(after[i].severity)
  OBVIOUS
<1>1. output \in Seq(Pieces \cup {NewLine}) /\ doing[v].line \in Seq(Pieces)
  BY DEF Inv, Types
<1>2. CASE i \in 1..Len(output)
  BY <1>1, <1>2 DEF Inv, LevelHolds
<1>3. CASE i \in Len(output) + 1 .. Len(output) + Len(doing[v].line)
  <2> DEFINE j == i - Len(output)
  <2>1. j \in 1..Len(doing[v].line) /\ after[i] = doing[v].line[j]
    BY <1>1, <1>3
  <2>2. after[i] \in Pieces
    BY <1>1, <2>1
  <2>3. after[i].thread \in Threads
    BY <2>2 DEF Pieces
  <2>4. From(after[i].thread, doing[v].line[j])
    BY <2>1 DEF From
  <2> QED
    BY <2>1, <2>3, <2>4 DEF Inv, OwnPieces, LinesBelowLevel
<1> QED
  BY <1>1, <1>2, <1>3

(* A newline changes nothing about that.                                      *)
LEMMA LevelAfterNewLine ==
  ASSUME NEW before \in Seq(Pieces \cup {NewLine}),
         \A i \in 1..Len(before) :
           before[i] # NewLine /\ Alone(before[i].thread) => IsLogged(before[i].severity),
         output' = Append(before, NewLine)
  PROVE  LevelHolds'
<1> SUFFICES ASSUME NEW i \in 1..Len(output'), output'[i] # NewLine, Alone(output'[i].thread)
             PROVE  IsLogged(output'[i].severity)
  BY DEF LevelHolds, Alone
<1>1. i \in 1..Len(before) /\ output'[i] = before[i]
  OBVIOUS
<1> QED
  BY <1>1

-------------------------------------------------------------------------------
(* Every step keeps Inv.                                                      *)
LEMMA BeginKeeps ==
  ASSUME Inv, NEW v \in Threads, NEW severity \in Severities, Begin(v, severity)
  PROVE  Inv'
<1> DEFINE piece == Piece(v, begun', severity, 0)
<1>1. /\ begun' \in Nat /\ severity \in 0..5 /\ piece \in Pieces
      /\ piece.thread = v /\ piece.severity = severity /\ Put(v, piece)
  <2>1. begun' \in Nat /\ severity \in 0..5
    BY LoggerAssumption DEF Begin, Inv, Types
  <2>2. piece \in Pieces
    BY <2>1, PieceType
  <2>3. piece.thread = v /\ piece.severity = severity
    BY DEF Piece
  <2>4. Put(v, piece)
    BY DEF Begin
  <2> QED
    BY <2>1, <2>2, <2>3, <2>4
<1> HIDE DEF piece
<1>2. doing' = [doing EXCEPT ![v] = [at |-> "building", n |-> begun', severity |-> severity,
                                    texts |-> 0, line |-> <<>>]]
  BY DEF Begin
<1>3. Types'
  <2>1. stream' \in [Loggers -> Seq(Pieces)]
    BY <1>1, PutEffect DEF Inv
  <2> QED
    BY <1>1, <1>2, <2>1 DEF Begin, Inv, Types
<1>4. InUse'
  <2> SUFFICES ASSUME NEW l \in Loggers, stream'[l] # <<>>
               PROVE  \E t \in Threads : LoggerOf[t] = l /\ doing'[t].at # "idle"
    BY DEF InUse, At, Loggers
  <2>1. CASE l = LoggerOf[v]
    BY <1>2, <2>1 DEF Inv, Types
  <2>2. CASE l # LoggerOf[v]
    <3>1. stream'[l] = stream[l]
      BY <1>1, <2>2, PutEffect DEF Inv
    <3> QED
      BY <1>2, <3>1, <2>2 DEF Inv, Types, InUse, At
  <2> QED
    BY <2>1, <2>2
<1>5. InOrder(stream, SeverityOf')
  <2> SUFFICES ASSUME NEW t \in Threads, NEW u \in Threads,
                      NEW i \in 1..Len(stream[LoggerOf[u]]),
                      From(t, stream[LoggerOf[u]][i])
               PROVE  u = t /\ stream[LoggerOf[u]][i].severity = SeverityOf'[t]
    BY DEF InOrder
  <2>1. u = t /\ stream[LoggerOf[u]][i].severity = doing[t].severity
    BY DEF Inv, OwnPieces, InOrder, SeverityOf
  <2>2. stream[LoggerOf[t]] # <<>>
    BY <2>1 DEF Inv, Types, Loggers
  <2>3. ~At(t, "idle")
    BY <2>2 DEF Inv, InUse, Loggers, From, Alone
  <2>4. doing'[t] = doing[t]
    BY <1>2, <2>3 DEF Begin
  <2> QED
    BY <2>1, <2>4 DEF SeverityOf
<1>6. OwnPieces'
  <2>1. SeverityOf'[v] = piece.severity
    BY <1>1, <1>2 DEF SeverityOf, Inv, Types
  <2>2. InOrder(stream', SeverityOf')
    BY <1>1, <1>5, <2>1, PutOwn DEF Inv
  <2>3. LinesBelowLevel'
    BY <1>2 DEF Inv, OwnPieces, LinesBelowLevel, Types, At, From, Alone
  <2> QED
    BY <2>2, <2>3 DEF OwnPieces, InOrder, From, Alone
<1>7. LevelHolds'
  BY DEF Begin, Inv, LevelHolds, Alone
<1> QED
  BY <1>3, <1>4, <1>6, <1>7 DEF Inv

LEMMA AppendTextKeeps ==
  ASSUME Inv, NEW v \in Threads, AppendText(v)
  PROVE  Inv'
<1> DEFINE text == doing[v].texts + 1
           piece == Piece(v, doing[v].n, doing[v].severity, text)
<1>1. /\ piece \in Pieces /\ piece.thread = v /\ piece.severity = doing[v].severity
      /\ Put(v, piece)
  <2>1. doing[v].n \in Nat /\ doing[v].severity \in 0..5 /\ text \in Nat
    BY DEF Inv, Types
  <2>2. piece \in Pieces
    BY <2>1, PieceType
  <2>3. piece.thread = v /\ piece.severity = doing[v].severity
    BY DEF Piece
  <2>4. Put(v, piece)
    BY DEF AppendText
  <2> QED
    BY <2>2, <2>3, <2>4
<1> HIDE DEF piece
<1>2. doing' = [doing EXCEPT ![v].texts = text] /\ text \in Nat
  BY DEF AppendText, Inv, Types
<1>3. Types'
  <2>1. stream' \in [Loggers -> Seq(Pieces)]
    BY <1>1, PutEffect DEF Inv
  <2> QED
    BY <1>2, <2>1 DEF AppendText, Inv, Types
<1>4. InUse'
  <2> SUFFICES ASSUME NEW l \in Loggers, stream'[l] # <<>>
               PROVE  \E t \in Threads : LoggerOf[t] = l /\ doing'[t].at # "idle"
    BY DEF InUse, At, Loggers
  <2>1. CASE l = LoggerOf[v]
    BY <1>2, <2>1 DEF AppendText, At, Inv, Types
  <2>2. CASE l # LoggerOf[v]
    <3>1. stream'[l] = stream[l]
      BY <1>1, <2>2, PutEffect DEF Inv
    <3> QED
      BY <1>2, <3>1, <2>2 DEF Inv, Types, InUse, At
  <2> QED
    BY <2>1, <2>2
<1>5. OwnPieces'
  <2>1. SeverityOf' = SeverityOf /\ SeverityOf[v] = piece.severity
    BY <1>1, <1>2 DEF SeverityOf, Inv, Types
  <2>2. InOrder(stream', SeverityOf')
    BY <1>1, <2>1, PutOwn DEF Inv, OwnPieces
  <2>3. \A u \in Threads : doing'[u].line = doing[u].line /\ doing'[u].at = doing[u].at
    BY <1>2 DEF Inv, Types
  <2>4. LinesBelowLevel'
    BY <2>3 DEF Inv, OwnPieces, LinesBelowLevel, At, From, Alone
  <2> QED
    BY <2>2, <2>4 DEF OwnPieces, InOrder, From, Alone
<1>6. LevelHolds'
  BY DEF AppendText, Inv, LevelHolds, Alone
<1> QED
  BY <1>3, <1>4, <1>5, <1>6 DEF Inv

(* Steps after which the thread is still at its message and its Logger's      *)
(* stream is as before.                                                       *)
LEMMA StreamStays ==
  ASSUME Inv, NEW v \in Threads, ~At(v, "idle"), NEW new,
         new \in [at : {"write", "newline", "clear"}, n : Nat, severity : 0..5, texts : Nat,
                  line : Seq(Pieces)],
         new.severity = doing[v].severity,
         doing' = [doing EXCEPT ![v] = new], UNCHANGED <<stream, begun>>
  PROVE  InUse' /\ InOrder(stream', SeverityOf')
<1>1. SeverityOf' = SeverityOf
  BY DEF SeverityOf, Inv, Types
<1>2. InUse'
  BY DEF Inv, Types, InUse, At, Loggers
<1> QED
  BY <1>1, <1>2 DEF Inv, OwnPieces

LEMMA EndMessageKeeps ==
  ASSUME Inv, NEW v \in Threads, EndMessage(v)
  PROVE  Inv'
<1> DEFINE new == IF IsLogged(doing[v].severity)
                    THEN [doing[v] EXCEPT !.at = "write", !.line = stream[LoggerOf[v]]]
                    ELSE [doing[v] EXCEPT !.at = "clear"]
<1>1. stream[LoggerOf[v]] \in Seq(Pieces)
  BY DEF Inv, Types, Loggers
<1>2. /\ new \in [at : {"write", "newline", "clear"}, n : Nat, severity : 0..5, texts : Nat,
                   line : Seq(Pieces)]
      /\ new.severity = doing[v].severity
      /\ new.at = "write" => new.line = stream[LoggerOf[v]] /\ IsLogged(doing[v].severity)
  BY <1>1 DEF Inv, Types
<1>3. doing' = [doing EXCEPT ![v] = new]
  BY DEF EndMessage, Goto, Inv, Types
<1> HIDE DEF new
<1>4. InUse' /\ InOrder(stream', SeverityOf')
  BY <1>2, <1>3, StreamStays DEF EndMessage, At
<1>5. Types'
  BY <1>2, <1>3 DEF EndMessage, Inv, Types
<1>6. LinesBelowLevel'
  <2> SUFFICES ASSUME NEW t \in Threads, NEW u \in Threads,
                      NEW i \in 1..Len(doing'[u].line),
                      From(t, doing'[u].line[i]), doing'[u].at = "write"
               PROVE  IsLogged(doing'[u].line[i].severity)
    BY DEF LinesBelowLevel, At, From, Alone
  <2>1. CASE u = v
    <3>1. doing'[u].line = stream[LoggerOf[v]] /\ IsLogged(doing[v].severity)
      BY <1>2, <1>3, <2>1 DEF Inv, Types
    <3>2. t = v /\ stream[LoggerOf[v]][i].severity = SeverityOf[t]
      BY <3>1 DEF Inv, OwnPieces, InOrder
    <3> QED
      BY <3>1, <3>2 DEF SeverityOf
  <2>2. CASE u # v
    BY <1>3, <2>2 DEF Inv, Types, OwnPieces, LinesBelowLevel, At
  <2> QED
    BY <2>1, <2>2
<1>7. LevelHolds'
  BY DEF EndMessage, Inv, LevelHolds, Alone
<1> QED
  BY <1>4, <1>5, <1>6, <1>7 DEF Inv, OwnPieces, InOrder, From, Alone

(* Steps that write: the thread goes on to a place where its line no longer   *)
(* matters.                                                                   *)
LEMMA WritingKeeps ==
  ASSUME Inv, NEW v \in Threads, ~At(v, "idle"), NEW place \in {"newline", "clear"},
         Goto(v, place), UNCHANGED <<stream, begun>>,
         output' \in Seq(Pieces \cup {NewLine}), LevelHolds'
  PROVE  Inv'
<1> DEFINE new == [doing[v] EXCEPT !.at = place]
<1>1. /\ new \in [at : {"write", "newline", "clear"}, n : Nat, severity : 0..5, texts : Nat,
                   line : Seq(Pieces)]
      /\ new.severity = doing[v].severity /\ new.at # "write"
  BY DEF Inv, Types
<1>2. doing' = [doing EXCEPT ![v] = new]
  BY DEF Goto, Inv, Types
<1> HIDE DEF new
<1>3. InUse' /\ InOrder(stream', SeverityOf')
  BY <1>1, <1>2, StreamStays
<1>4. Types'
  BY <1>1, <1>2 DEF Inv, Types
<1>5. \A u \in Threads : doing'[u].at = "write" => doing'[u] = doing[u]
  BY <1>1, <1>2 DEF Inv, Types
<1>6. LinesBelowLevel'
  BY <1>5 DEF Inv, OwnPieces, LinesBelowLevel, At, From, Alone
<1> QED
  BY <1>3, <1>4, <1>6 DEF Inv, OwnPieces, InOrder, From, Alone

LEMMA WriteKeeps ==
  ASSUME Inv, NEW v \in Threads, Write(v)
  PROVE  Inv'
<1>1. At(v, "write") /\ output' = output \o doing[v].line
  BY DEF Write
<1>2. LevelHolds'
  BY <1>1, BelowLevel DEF LevelHolds, Alone
<1>3. output' \in Seq(Pieces \cup {NewLine})
  BY <1>1 DEF Inv, Types
<1> QED
  BY <1>1, <1>2, <1>3, WritingKeeps DEF Write, At

LEMMA EndLineKeeps ==
  ASSUME Inv, NEW v \in Threads, EndLine(v)
  PROVE  Inv'
<1>1. output \in Seq(Pieces \cup {NewLine}) /\ output' = Append(output, NewLine)
  BY DEF EndLine, Inv, Types
<1>2. LevelHolds'
  BY <1>1, LevelAfterNewLine DEF Inv, LevelHolds
<1>3. output' \in Seq(Pieces \cup {NewLine})
  BY <1>1
<1> QED
  BY <1>2, <1>3, WritingKeeps DEF EndLine, At

LEMMA SyslogKeeps ==
  ASSUME Inv, NEW v \in Threads, Syslog(v)
  PROVE  Inv'
<1> DEFINE before == output \o doing[v].line
<1>1. before \in Seq(Pieces \cup {NewLine}) /\ output' = Append(before, NewLine)
  BY DEF Syslog, Inv, Types
<1>2. \A i \in 1..Len(before) :
        before[i] # NewLine /\ Alone(before[i].thread) => IsLogged(before[i].severity)
  BY BelowLevel DEF Syslog
<1> HIDE DEF before
<1>3. LevelHolds'
  BY <1>1, <1>2, LevelAfterNewLine
<1>4. output' \in Seq(Pieces \cup {NewLine})
  BY <1>1
<1> QED
  BY <1>3, <1>4, WritingKeeps DEF Syslog, At

LEMMA ClearKeeps ==
  ASSUME Inv, NEW v \in Threads, Clear(v)
  PROVE  Inv'
<1>1. /\ doing' = [doing EXCEPT ![v] = Idle]
      /\ stream' = [stream EXCEPT ![LoggerOf[v]] = <<>>]
      /\ LoggerOf[v] \in Loggers
  BY DEF Clear, Loggers
<1>2. Types'
  BY <1>1 DEF Clear, Inv, Types, Idle
<1>3. InUse'
  <2> SUFFICES ASSUME NEW l \in Loggers, stream'[l] # <<>>
               PROVE  \E t \in Threads : LoggerOf[t] = l /\ doing'[t].at # "idle"
    BY DEF InUse, At, Loggers
  <2>1. l # LoggerOf[v] /\ stream'[l] = stream[l]
    BY <1>1 DEF Inv, Types
  <2>2. PICK t \in Threads : LoggerOf[t] = l /\ doing[t].at # "idle"
    BY <2>1 DEF Inv, InUse, At
  <2> QED
    BY <1>1, <2>1, <2>2 DEF Inv, Types
<1>4. InOrder(stream', SeverityOf')
  <2> SUFFICES ASSUME NEW t \in Threads, NEW u \in Threads,
                      NEW i \in 1..Len(stream'[LoggerOf[u]]),
                      From(t, stream'[LoggerOf[u]][i])
               PROVE  u = t /\ stream'[LoggerOf[u]][i].severity = SeverityOf'[t]
    BY DEF InOrder
  <2>1. LoggerOf[u] # LoggerOf[v] /\ stream'[LoggerOf[u]] = stream[LoggerOf[u]]
    BY <1>1 DEF Inv, Types, Loggers
  <2>2. u = t /\ stream[LoggerOf[u]][i].severity = SeverityOf[t]
    BY <2>1 DEF Inv, OwnPieces, InOrder
  <2>3. doing'[t] = doing[t]
    BY <1>1, <2>1, <2>2 DEF Inv, Types
  <2> QED
    BY <2>1, <2>2, <2>3 DEF SeverityOf
<1>5. LinesBelowLevel'
  <2>1. \A u \in Threads : doing'[u].at = "write" => doing'[u] = doing[u]
    BY <1>1 DEF Inv, Types, Idle
  <2> QED
    BY <2>1 DEF Inv, OwnPieces, LinesBelowLevel, At, From, Alone
<1>6. LevelHolds'
  BY DEF Clear, Inv, LevelHolds, Alone
<1> QED
  BY <1>2, <1>3, <1>4, <1>5, <1>6 DEF Inv, OwnPieces, InOrder, From, Alone

LEMMA StutterKeeps ==
  ASSUME Inv, UNCHANGED logVars
  PROVE  Inv'
<1>1. UNCHANGED <<stream, output, doing, begun>>
  BY DEF logVars
<1>2. Types'
  BY <1>1 DEF Inv, Types
<1>3. InUse'
  BY <1>1 DEF Inv, InUse, At
<1>4. OwnPieces'
  BY <1>1 DEF Inv, OwnPieces, InOrder, SeverityOf, LinesBelowLevel, At, From, Alone
<1>5. LevelHolds'
  BY <1>1 DEF Inv, LevelHolds, Alone
<1> QED
  BY <1>2, <1>3, <1>4, <1>5 DEF Inv

-------------------------------------------------------------------------------
LEMMA InvariantHolds == Spec => []Inv
<1>1. Inv /\ [Next]_logVars => Inv'
  <2> SUFFICES ASSUME Inv, [Next]_logVars PROVE Inv'
    OBVIOUS
  <2>1. CASE Next
    BY <2>1, BeginKeeps, AppendTextKeeps, EndMessageKeeps, WriteKeeps, EndLineKeeps,
       SyslogKeeps, ClearKeeps
    DEF Next
  <2>2. CASE UNCHANGED logVars
    BY <2>2, StutterKeeps
  <2> QED
    BY <2>1, <2>2
<1> QED
  BY InitInv, <1>1, PTL DEF Spec

(* Nothing above the level is logged for a thread that has its Logger to      *)
(* itself: not by ~Flusher(), and not as the rest of an earlier message.      *)
THEOREM LevelIsKept == Spec => []LevelHolds
  BY InvariantHolds, PTL DEF Inv

(* ~Flusher() leaves nothing behind in a stream, shared or not, once nobody   *)
(* is logging through it.                                                     *)
THEOREM StreamsAreEmptied == Spec => []NothingStays
<1>1. Inv => NothingStays
  BY DEF Inv, InUse, NothingStays
<1> QED
  BY <1>1, InvariantHolds, PTL

-------------------------------------------------------------------------------
(* For OwnLine, what else holds of a thread that has its Logger to itself:    *)
(* its stream is its message so far, and so is the line it is about to write. *)
SoFar(t, line, message) ==
  /\ Len(line) = message.texts + 1
  /\ \A i \in 1..Len(line) : line[i] = Piece(t, message.n, message.severity, i - 1)

OwnStream(t, line, message) ==
  Alone(t) => IF message.at = "idle" THEN line = <<>> ELSE SoFar(t, line, message)

OwnStreams == \A t \in Threads : OwnStream(t, stream[LoggerOf[t]], doing[t])

(* Nobody else is about to write anything of its.                             *)
WritesOwn(t, message) ==
  message.at = "write" =>
    /\ Alone(t) => SoFar(t, message.line, message)
    /\ ~Alone(t) => \A i \in 1..Len(message.line) : ~Alone(message.line[i].thread)

OwnLines == \A t \in Threads : WritesOwn(t, doing[t])

(* Who is between a line and its newline has the file's mutex.                *)
Turns ==
  /\ sink \in {"file", "console", "syslog"}
  /\ sink = "file" => mutex \in Threads \cup {NoThread} /\ \A t \in Threads : At(t, "newline") <=> mutex = t
  /\ sink = "syslog" => mutex = NoThread /\ \A t \in Threads : ~At(t, "newline")

AtLineStart(out) == out = <<>> \/ out[Len(out)] = NewLine

LineInv == sink # "console" /\ mutex = NoThread => AtLineStart(output)

Whole == Inv /\ OwnStreams /\ OwnLines /\ Turns /\ LineInv /\ OwnLine

OnOwnLines(out) ==
  \A i \in 1..Len(out) :
    out[i] # NewLine /\ Alone(out[i].thread) =>
      /\ IF out[i].text = 0
           THEN i = 1 \/ out[i - 1] = NewLine
           ELSE i > 1 /\ out[i - 1] = [out[i] EXCEPT !.text = @ - 1]
      /\ i < Len(out) => out[i + 1] \in {NewLine, [out[i] EXCEPT !.text = @ + 1]}

LEMMA OwnLineIs == OwnLine <=> (sink # "console" => OnOwnLines(output))
  BY DEF OwnLine, OnOwnLines

(* A line goes behind a newline.                                              *)
LEMMA LineJoins ==
  ASSUME Whole, NEW v \in Threads, At(v, "write"), OnOwnLines(output), AtLineStart(output)
  PROVE  OnOwnLines(output \o doing[v].line)
<1> DEFINE line == doing[v].line
           out == output \o line
           before == Len(output)
<1>1. output \in Seq(Pieces \cup {NewLine}) /\ line \in Seq(Pieces)
  BY DEF Whole, Inv, Types
<1>2. /\ out \in Seq(Pieces \cup {NewLine}) /\ before \in Nat
      /\ Len(line) \in Nat /\ Len(out) = before + Len(line)
      /\ \A i \in 1..before : out[i] = output[i]
      /\ \A j \in 1..Len(line) : out[before + j] = line[j]
  BY <1>1
<1>3. before > 0 => out[before] = NewLine
  BY <1>1, <1>2 DEF AtLineStart
<1> SUFFICES ASSUME NEW i \in 1..Len(out), out[i] # NewLine, Alone(out[i].thread)
             PROVE  /\ IF out[i].text = 0
                         THEN i = 1 \/ out[i - 1] = NewLine
                         ELSE i > 1 /\ out[i - 1] = [out[i] EXCEPT !.text = @ - 1]
                    /\ i < Len(out) => out[i + 1] \in {NewLine, [out[i] EXCEPT !.text = @ + 1]}
  BY DEF OnOwnLines
<1> HIDE DEF line, out, before
<1>4. CASE i \in 1..before
  <2>1. i # before /\ i + 1 \in 1..before
    BY <1>2, <1>3, <1>4
  <2>2. out[i] = output[i] /\ out[i + 1] = output[i + 1] /\ i < Len(output)
    BY <1>2, <1>4, <2>1 DEF before
  <2>3. i > 1 => out[i - 1] = output[i - 1]
    BY <1>2, <1>4
  <2> QED
    BY <1>2, <1>4, <2>2, <2>3 DEF OnOwnLines, before
<1>5. CASE i \in before + 1 .. before + Len(line)
  <2> DEFINE j == i - before
             piece(text) == Piece(v, doing[v].n, doing[v].severity, text)
  <2>1. j \in 1..Len(line) /\ out[i] = line[j]
    BY <1>1, <1>2, <1>5
  <2>2. Alone(v)
    BY <2>1 DEF Whole, OwnLines, WritesOwn, At, line
  <2>3. \A k \in 1..Len(line) : line[k] = piece(k - 1)
    BY <2>2 DEF Whole, OwnLines, WritesOwn, SoFar, At, line
  <2>4. out[i] = piece(j - 1) /\ out[i].text = j - 1
    BY <2>1, <2>3 DEF Piece
  <2>5. j = 1 => i = 1 \/ out[i - 1] = NewLine
    BY <1>2, <1>3, <1>5
  <2>13. /\ Len(line) \in Nat /\ before \in Nat /\ i \in Nat /\ j \in Nat /\ j <= Len(line)
        /\ j >= 1 /\ i = before + j
    BY <1>2, <1>5
  <2>6. ASSUME j > 1 PROVE i > 1 /\ out[i - 1] = piece(j - 2)
    <3>1. /\ j - 1 \in 1..Len(line) /\ i - 1 = before + (j - 1) /\ (j - 1) - 1 = j - 2
          /\ i > 1
      <4> HIDE DEF j, piece
      <4> QED
        BY <2>13, <2>6
    <3>2. line[j - 1] = piece((j - 1) - 1)
      BY <2>3, <3>1
    <3> HIDE DEF j, piece
    <3> QED
      BY <1>2, <3>1, <3>2
  <2>7. ASSUME i < Len(out) PROVE out[i + 1] = piece(j)
    <3>1. j + 1 \in 1..Len(line) /\ i + 1 = before + (j + 1) /\ (j + 1) - 1 = j
      <4>1. Len(out) = before + Len(line)
        BY <1>2
      <4> HIDE DEF j, piece
      <4> QED
        BY <2>13, <2>7, <4>1
    <3>2. line[j + 1] = piece((j + 1) - 1)
      BY <2>3, <3>1
    <3> HIDE DEF j, piece
    <3> QED
      BY <1>2, <3>1, <3>2
  <2>8. piece(j - 2) = [piece(j - 1) EXCEPT !.text = @ - 1]
    BY <2>1 DEF Piece
  <2>9. piece(j) = [piece(j - 1) EXCEPT !.text = @ + 1]
    BY <2>1 DEF Piece
  <2>10. j \in Nat /\ j >= 1
    BY <2>13
  <2> HIDE DEF piece, j
  <2>11. IF out[i].text = 0
           THEN i = 1 \/ out[i - 1] = NewLine
           ELSE i > 1 /\ out[i - 1] = [out[i] EXCEPT !.text = @ - 1]
    <3>1. CASE j = 1
      BY <2>4, <2>5, <3>1
    <3>2. CASE j > 1
      BY <2>4, <2>6, <2>8, <2>10, <3>2
    <3> QED
      BY <2>10, <3>1, <3>2
  <2>12. i < Len(out) => out[i + 1] = [out[i] EXCEPT !.text = @ + 1]
    BY <2>4, <2>7, <2>9
  <2> QED
    BY <2>11, <2>12
<1> QED
  BY <1>1, <1>2, <1>4, <1>5

(* A newline goes behind anything.                                            *)
LEMMA NewLineJoins ==
  ASSUME NEW out \in Seq(Pieces \cup {NewLine}), OnOwnLines(out)
  PROVE  OnOwnLines(Append(out, NewLine)) /\ AtLineStart(Append(out, NewLine))
<1> DEFINE after == Append(out, NewLine)
<1>1. /\ after \in Seq(Pieces \cup {NewLine}) /\ Len(after) = Len(out) + 1
      /\ after[Len(out) + 1] = NewLine /\ \A i \in 1..Len(out) : after[i] = out[i]
  OBVIOUS
<1> HIDE DEF after
<1>2. AtLineStart(after)
  BY <1>1 DEF AtLineStart
<1>3. OnOwnLines(after)
  <2> SUFFICES ASSUME NEW i \in 1..Len(after), after[i] # NewLine, Alone(after[i].thread)
               PROVE  /\ IF after[i].text = 0
                           THEN i = 1 \/ after[i - 1] = NewLine
                           ELSE i > 1 /\ after[i - 1] = [after[i] EXCEPT !.text = @ - 1]
                      /\ i < Len(after) =>
                           after[i + 1] \in {NewLine, [after[i] EXCEPT !.text = @ + 1]}
    BY DEF OnOwnLines
  <2>1. i \in 1..Len(out) /\ after[i] = out[i] /\ (i > 1 => after[i - 1] = out[i - 1])
    BY <1>1
  <2>2. i = Len(out) \/ (i < Len(out) /\ after[i + 1] = out[i + 1])
    BY <1>1, <2>1
  <2> QED
    BY <1>1, <2>1, <2>2 DEF OnOwnLines
<1> QED
  BY <1>2, <1>3 DEF after

(* A piece put into one's own stream is not lost.                             *)
LEMMA PutAlone ==
  ASSUME Types, NEW v \in Threads, Alone(v), NEW piece \in Pieces, Put(v, piece)
  PROVE  stream'[LoggerOf[v]] = Append(stream[LoggerOf[v]], piece)
<1>1. stream' = [stream EXCEPT ![LoggerOf[v]] = Append(@, piece)]
  BY DEF Put, Alone
<1> QED
  BY <1>1 DEF Types, Loggers

(* What a thread does is nothing to the others that are alone.                *)
LEMMA OthersKeep ==
  ASSUME Whole, NEW v \in Threads,
         \A l \in Loggers : l # LoggerOf[v] => stream'[l] = stream[l],
         \A t \in Threads \ {v} : doing'[t] = doing[t],
         OwnStream(v, stream'[LoggerOf[v]], doing'[v]), WritesOwn(v, doing'[v])
  PROVE  OwnStreams' /\ OwnLines'
<1>1. ASSUME NEW t \in Threads \ {v} PROVE OwnStream(t, stream'[LoggerOf[t]], doing'[t])
  <2>1. Alone(t) => stream'[LoggerOf[t]] = stream[LoggerOf[t]]
    BY DEF Alone, Loggers
  <2> QED
    BY <2>1 DEF Whole, OwnStreams, OwnStream
<1>2. \A t \in Threads : WritesOwn(t, doing'[t])
  BY DEF Whole, OwnLines
<1> QED
  BY <1>1, <1>2 DEF OwnStreams, OwnStream, OwnLines, WritesOwn, SoFar, Alone, Piece

LEMMA BeginWhole ==
  ASSUME Whole, NEW v \in Threads, NEW severity \in Severities, Begin(v, severity)
  PROVE  Whole'
<1> DEFINE piece == Piece(v, begun', severity, 0)
           new == [at |-> "building", n |-> begun', severity |-> severity, texts |-> 0,
                   line |-> <<>>]
<1>1. piece \in Pieces
  <2>1. begun' \in Nat /\ severity \in 0..5
    BY LoggerAssumption DEF Begin, Whole, Inv, Types
  <2> QED
    BY <2>1, PieceType
<1>2. doing'[v] = new /\ \A t \in Threads \ {v} : doing'[t] = doing[t]
  BY DEF Begin, Whole, Inv, Types
<1>3. \A l \in Loggers : l # LoggerOf[v] => stream'[l] = stream[l]
  BY <1>1, PutEffect DEF Begin, Whole, Inv
<1>4. OwnStream(v, stream'[LoggerOf[v]], new)
  <2> SUFFICES ASSUME Alone(v) PROVE SoFar(v, stream'[LoggerOf[v]], new)
    BY DEF OwnStream
  <2>1. stream[LoggerOf[v]] = <<>>
    BY DEF Begin, At, Whole, OwnStreams, OwnStream
  <2>2. Put(v, piece) /\ Types
    BY DEF Begin, Whole, Inv
  <2>3. stream'[LoggerOf[v]] = Append(<<>>, piece)
    BY <1>1, <2>1, <2>2, PutAlone
  <2>4. stream'[LoggerOf[v]] = <<piece>>
    BY <2>3
  <2> QED
    BY <2>4 DEF SoFar
<1>5. OwnStreams' /\ OwnLines'
  BY <1>2, <1>3, <1>4, OthersKeep DEF WritesOwn
<1>6. Turns'
  BY <1>2 DEF Begin, Whole, Turns, At
<1> QED
  BY <1>5, <1>6, BeginKeeps
  DEF Begin, Whole, LineInv, AtLineStart, OwnLine, Alone

LEMMA AppendTextWhole ==
  ASSUME Whole, NEW v \in Threads, AppendText(v)
  PROVE  Whole'
<1> DEFINE text == doing[v].texts + 1
           piece == Piece(v, doing[v].n, doing[v].severity, text)
           new == [doing[v] EXCEPT !.texts = text]
<1>1. piece \in Pieces /\ text \in Nat
  <2>1. doing[v].n \in Nat /\ doing[v].severity \in 0..5 /\ text \in Nat
    BY DEF Whole, Inv, Types
  <2> QED
    BY <2>1, PieceType
<1>2. doing'[v] = new /\ \A t \in Threads \ {v} : doing'[t] = doing[t]
  BY DEF AppendText, Whole, Inv, Types
<1>3. /\ new.at = "building" /\ new.texts = text
      /\ new.n = doing[v].n /\ new.severity = doing[v].severity
  BY DEF AppendText, At, Whole, Inv, Types
<1>4. \A l \in Loggers : l # LoggerOf[v] => stream'[l] = stream[l]
  BY <1>1, PutEffect DEF AppendText, Whole, Inv
<1>5. OwnStream(v, stream'[LoggerOf[v]], new)
  <2> SUFFICES ASSUME Alone(v) PROVE SoFar(v, stream'[LoggerOf[v]], new)
    BY <1>3 DEF OwnStream
  <2> DEFINE before == stream[LoggerOf[v]]
  <2>1. SoFar(v, before, doing[v]) /\ before \in Seq(Pieces)
    BY DEF AppendText, At, Whole, OwnStreams, OwnStream, Inv, Types, Loggers
  <2>2. Put(v, piece) /\ Types
    BY DEF AppendText, Whole, Inv
  <2>3. stream'[LoggerOf[v]] = Append(before, piece)
    BY <1>1, <2>2, PutAlone
  <2> HIDE DEF before, piece
  <2>4. /\ Len(Append(before, piece)) = Len(before) + 1
        /\ \A i \in 1..Len(before) : Append(before, piece)[i] = before[i]
        /\ Append(before, piece)[Len(before) + 1] = piece
    BY <1>1, <2>1
  <2>5. Len(before) = text
    BY <2>1 DEF SoFar
  <2>6. piece = Piece(v, new.n, new.severity, (Len(before) + 1) - 1)
    BY <1>1, <1>3, <2>5 DEF piece
  <2>7. Len(stream'[LoggerOf[v]]) = new.texts + 1
    BY <1>3, <2>3, <2>4, <2>5
  <2>8. ASSUME NEW i \in 1..Len(stream'[LoggerOf[v]])
        PROVE  stream'[LoggerOf[v]][i] = Piece(v, new.n, new.severity, i - 1)
    <3>1. CASE i \in 1..Len(before)
      BY <1>3, <2>1, <2>3, <2>4, <3>1 DEF SoFar
    <3>2. CASE i = Len(before) + 1
      BY <2>3, <2>4, <2>6, <3>2
    <3> QED
      BY <1>1, <2>3, <2>4, <2>5, <3>1, <3>2
  <2> QED
    BY <2>7, <2>8 DEF SoFar
<1>6. OwnStreams' /\ OwnLines'
  BY <1>2, <1>3, <1>4, <1>5, OthersKeep DEF WritesOwn
<1>7. Turns'
  BY <1>2, <1>3 DEF AppendText, Whole, Turns, At
<1> QED
  BY <1>6, <1>7, AppendTextKeeps
  DEF AppendText, Whole, LineInv, AtLineStart, OwnLine, Alone

LEMMA EndMessageWhole ==
  ASSUME Whole, NEW v \in Threads, EndMessage(v)
  PROVE  Whole'
<1> DEFINE line == stream[LoggerOf[v]]
           new == doing'[v]
<1>1. /\ \A t \in Threads \ {v} : doing'[t] = doing[t]
      /\ new.at \in {"write", "clear"} /\ new.texts = doing[v].texts
      /\ new.n = doing[v].n /\ new.severity = doing[v].severity
      /\ new.at = "write" => new.line = line
  BY DEF EndMessage, Goto, Whole, Inv, Types
<1>2. line \in Seq(Pieces)
  BY DEF Whole, Inv, Types, Loggers
<1>3. Alone(v) => SoFar(v, line, new)
  BY <1>1 DEF EndMessage, At, Whole, OwnStreams, OwnStream, SoFar
<1>4. ~Alone(v) => \A i \in 1..Len(line) : ~Alone(line[i].thread)
  <2> SUFFICES ASSUME NEW i \in 1..Len(line), Alone(line[i].thread) PROVE Alone(v)
    OBVIOUS
  <2>1. line[i] \in Pieces
    BY <1>2
  <2>2. line[i].thread \in Threads /\ From(line[i].thread, line[i])
    BY <2>1 DEF Pieces, From
  <2>3. v = line[i].thread
    BY <2>2 DEF Whole, Inv, OwnPieces, InOrder
  <2> QED
    BY <2>3
<1>5. UNCHANGED stream
  BY DEF EndMessage
<1> HIDE DEF line, new
<1>6. OwnStream(v, line, new) /\ WritesOwn(v, new)
  BY <1>1, <1>3, <1>4 DEF OwnStream, WritesOwn
<1>7. OwnStreams' /\ OwnLines'
  BY <1>1, <1>5, <1>6, OthersKeep DEF line, new
<1>8. Turns'
  BY <1>1 DEF EndMessage, Whole, Turns, At, new
<1> QED
  BY <1>7, <1>8, EndMessageKeeps
  DEF EndMessage, Whole, LineInv, AtLineStart, OwnLine, Alone

(* Steps that write leave a thread's message as it is.                        *)
LEMMA WritingWhole ==
  ASSUME Whole, NEW v \in Threads, ~At(v, "idle"), NEW place \in {"newline", "clear"},
         Goto(v, place), UNCHANGED stream
  PROVE  /\ doing'[v].at = place /\ \A t \in Threads \ {v} : doing'[t] = doing[t]
         /\ OwnStreams' /\ OwnLines'
<1> DEFINE new == doing'[v]
<1>1. /\ \A t \in Threads \ {v} : doing'[t] = doing[t]
      /\ new.at = place /\ new.texts = doing[v].texts
      /\ new.n = doing[v].n /\ new.severity = doing[v].severity
  BY DEF Goto, Whole, Inv, Types
<1>2. OwnStream(v, stream[LoggerOf[v]], new) /\ WritesOwn(v, new)
  BY <1>1 DEF At, Whole, OwnStreams, OwnStream, SoFar, WritesOwn
<1> QED
  BY <1>1, <1>2, OthersKeep

LEMMA WriteWhole ==
  ASSUME Whole, NEW v \in Threads, Write(v)
  PROVE  Whole'
<1>1. /\ doing'[v].at = "newline" /\ \A t \in Threads \ {v} : doing'[t] = doing[t]
      /\ OwnStreams' /\ OwnLines'
  BY WritingWhole DEF Write, At
<1>2. Turns'
  BY <1>1, LoggerAssumption DEF Write, Whole, Turns, At
<1>3. LineInv'
  BY <1>2, LoggerAssumption DEF Write, Whole, Turns, LineInv
<1>4. OwnLine'
  <2> SUFFICES ASSUME sink = "file" PROVE OnOwnLines(output \o doing[v].line)
    BY DEF Write, Whole, Turns, OwnLine, OnOwnLines, Alone
  <2>1. mutex = NoThread
    BY DEF Write
  <2>2. OnOwnLines(output) /\ AtLineStart(output)
    BY <2>1, OwnLineIs DEF Whole, LineInv
  <2> QED
    BY <2>2, LineJoins DEF Write
<1> QED
  BY <1>1, <1>2, <1>3, <1>4, WriteKeeps DEF Whole

LEMMA EndLineWhole ==
  ASSUME Whole, NEW v \in Threads, EndLine(v)
  PROVE  Whole'
<1>1. /\ doing'[v].at = "clear" /\ \A t \in Threads \ {v} : doing'[t] = doing[t]
      /\ OwnStreams' /\ OwnLines'
  BY WritingWhole DEF EndLine, At
<1>2. Turns'
  BY <1>1, LoggerAssumption DEF EndLine, Whole, Turns, At
<1>3. output \in Seq(Pieces \cup {NewLine}) /\ output' = Append(output, NewLine)
  BY DEF EndLine, Whole, Inv, Types
<1>4. LineInv'
  BY <1>3 DEF LineInv, AtLineStart
<1>5. OwnLine'
  <2> SUFFICES ASSUME sink # "console" PROVE OnOwnLines(Append(output, NewLine))
    BY <1>3 DEF EndLine, OwnLine, OnOwnLines, Alone
  <2> QED
    BY <1>3, OwnLineIs, NewLineJoins DEF Whole
<1> QED
  BY <1>1, <1>2, <1>4, <1>5, EndLineKeeps DEF Whole

LEMMA SyslogWhole ==
  ASSUME Whole, NEW v \in Threads, Syslog(v)
  PROVE  Whole'
<1> DEFINE before == output \o doing[v].line
<1>1. /\ doing'[v].at = "clear" /\ \A t \in Threads \ {v} : doing'[t] = doing[t]
      /\ OwnStreams' /\ OwnLines'
  BY WritingWhole DEF Syslog, At
<1>2. Turns'
  BY <1>1 DEF Syslog, Whole, Turns, At
<1>3. before \in Seq(Pieces \cup {NewLine}) /\ output' = Append(before, NewLine)
  BY DEF Syslog, Whole, Inv, Types
<1>4. OnOwnLines(before)
  <2>1. OnOwnLines(output) /\ AtLineStart(output)
    BY OwnLineIs DEF Syslog, Whole, Turns, LineInv
  <2> QED
    BY <2>1, LineJoins DEF Syslog
<1> HIDE DEF before
<1>5. OnOwnLines(output') /\ AtLineStart(output')
  BY <1>3, <1>4, NewLineJoins
<1>6. LineInv' /\ OwnLine'
  BY <1>5 DEF LineInv, AtLineStart, OwnLine, OnOwnLines, Alone
<1> QED
  BY <1>1, <1>2, <1>6, SyslogKeeps DEF Whole

LEMMA ClearWhole ==
  ASSUME Whole, NEW v \in Threads, Clear(v)
  PROVE  Whole'
<1>1. doing'[v] = Idle /\ \A t \in Threads \ {v} : doing'[t] = doing[t]
  BY DEF Clear, Whole, Inv, Types
<1>2. /\ stream'[LoggerOf[v]] = <<>>
      /\ \A l \in Loggers : l # LoggerOf[v] => stream'[l] = stream[l]
  BY DEF Clear, Whole, Inv, Types, Loggers
<1>3. OwnStream(v, stream'[LoggerOf[v]], doing'[v]) /\ WritesOwn(v, doing'[v])
  BY <1>1, <1>2 DEF OwnStream, WritesOwn, Idle
<1>4. OwnStreams' /\ OwnLines'
  BY <1>1, <1>2, <1>3, OthersKeep
<1>5. Turns'
  BY <1>1 DEF Clear, Whole, Turns, At, Idle
<1> QED
  BY <1>4, <1>5, ClearKeeps
  DEF Clear, Whole, LineInv, AtLineStart, OwnLine, Alone

(* The message of a thread that has its Logger to itself gets to the log file *)
(* or syslog on a line of its own.                                            *)
THEOREM LinesAreOwn == Spec => []OwnLine
<1>1. Init => Whole
  <2> SUFFICES ASSUME Init PROVE Whole
    OBVIOUS
  <2>1. OwnStreams /\ OwnLines
    BY DEF Init, OwnStreams, OwnStream, OwnLines, WritesOwn, Loggers, Idle
  <2>2. Turns
    BY LoggerAssumption DEF Init, Turns, At, Idle
  <2>3. LineInv /\ OwnLine
    BY DEF Init, LineInv, AtLineStart, OwnLine
  <2> QED
    BY <2>1, <2>2, <2>3, InitInv DEF Whole
<1>2. Whole /\ [Next]_logVars => Whole'
  <2> SUFFICES ASSUME Whole, [Next]_logVars PROVE Whole'
    OBVIOUS
  <2>1. CASE Next
    BY <2>1, BeginWhole, AppendTextWhole, EndMessageWhole, WriteWhole, EndLineWhole,
       SyslogWhole, ClearWhole
    DEF Next
  <2>2. CASE UNCHANGED logVars
    <3>1. Inv'
      BY <2>2, StutterKeeps DEF Whole
    <3>2. OwnStreams' /\ OwnLines'
      BY <2>2 DEF logVars, Whole, OwnStreams, OwnStream, OwnLines, WritesOwn, SoFar, Alone
    <3>3. Turns' /\ LineInv' /\ OwnLine'
      BY <2>2 DEF logVars, Whole, Turns, At, LineInv, AtLineStart, OwnLine, Alone
    <3> QED
      BY <3>1, <3>2, <3>3 DEF Whole
  <2> QED
    BY <2>1, <2>2
<1> QED
  BY <1>1, <1>2, PTL DEF Spec, Whole
===============================================================================
